---- MODULE Spec2Model ----
(***************************************************************************)
(* ISO 9564-1:2017 PIN block encoding and decoding (openemv/pinblock).     *)
(*                                                                         *)
(* Buffers are functions from the C index range 0..n-1 to byte values.     *)
(* Every public function of pinblock.c is an operator that takes the C     *)
(* arguments (plus the bytes the random source returns during the call)    *)
(* and yields the return code together with the output buffers.  The       *)
(* state machine is a caller that owns the buffers, as the test programs   *)
(* do: it encodes into its PIN block buffer or takes a received block, may *)
(* flip a bit of the block, asks for its format and decodes it, with the   *)
(* decode of one format or with pinblock_decode; after an encode with      *)
(* random padding it may encode the same PIN a second time.  A second      *)
(* specification, PanSpec, applies the two PAN field derivations to a PAN; *)
(* a third, ArgSpec, calls every public function with null pointers and    *)
(* zero lengths as well as valid arguments.                                *)
(***************************************************************************)
EXTENDS Integers, Sequences, FiniteSets, TLC

\* ------------------------------------------------------------------ bounds
MaxPinLen == 13      \* PIN lengths 0..MaxPinLen are offered to the encoders
MaxPinSeed == 2      \* PIN digit patterns 0..MaxPinSeed
MaxPanPad == 0       \* 0..MaxPanPad extra 0xFF bytes after the PAN digits
MaxRandSeed == 3     \* outputs 0..MaxRandSeed of the random source
MaxNonceLen == 9     \* caller nonces of 0..MaxNonceLen bytes
MaxPanDigits == 20   \* PANs of 0..MaxPanDigits digits are offered to the PAN fields
MaxPadBytes == 2     \* followed by 0..MaxPadBytes bytes 0xFF

\* ------------------------------------------------------- program constants
PINBLOCK_SIZE == 8
PINBLOCK128_SIZE == 16
PINBLOCK_ISO9564_FORMAT_0 == 0
PINBLOCK_ISO9564_FORMAT_1 == 1
PINBLOCK_ISO9564_FORMAT_2 == 2
PINBLOCK_ISO9564_FORMAT_3 == 3
PINBLOCK_ISO9564_FORMAT_4 == 4

\* A null pointer: a buffer no byte buffer is equal to.
NULL == [i \in {-1} |-> -1]

\* Content of a byte that the call under consideration has not written.
Unwritten == 0 - 1

\* ------------------------------------------------------ C byte arithmetic
RECURSIVE BitAnd(_, _)
BitAnd(a, b) ==
    IF a = 0 \/ b = 0 THEN 0
    ELSE (IF a % 2 = 1 /\ b % 2 = 1 THEN 1 ELSE 0) + 2 * BitAnd(a \div 2, b \div 2)

RECURSIVE BitOr(_, _)
BitOr(a, b) ==
    IF a = 0 THEN b
    ELSE IF b = 0 THEN a
    ELSE (IF a % 2 = 1 \/ b % 2 = 1 THEN 1 ELSE 0) + 2 * BitOr(a \div 2, b \div 2)

RECURSIVE BitXor(_, _)
BitXor(a, b) ==
    IF a = 0 THEN b
    ELSE IF b = 0 THEN a
    ELSE ((a + b) % 2) + 2 * BitXor(a \div 2, b \div 2)

\* (uint8_t)(x << 4)
Shl4(x) == (x * 16) % 256
\* x >> 4 of a byte
Shr4(x) == x \div 16

BufLen(buf) == Cardinality(DOMAIN buf)

\* --------------------------------------------------------- Digit packer
\* for (i = 0; i < pin_len; ++i) of pinblock_pack_pin, from index i on
RECURSIVE pack_pin_digits(_, _, _, _)
pack_pin_digits(pin, pin_len, i, pinblock) ==
    IF i >= pin_len THEN pinblock
    ELSE pack_pin_digits(pin, pin_len, i + 1,
            IF i % 2 = 0
            THEN [pinblock EXCEPT ![(i \div 2) + 1] = Shl4(pin[i])]
            ELSE [pinblock EXCEPT ![(i \div 2) + 1] = BitOr(@, BitAnd(pin[i], 15))])

\* pinblock_pack_pin without the fill of the nibble after an odd PIN
pinblock_pack_pin_no_odd_fill(format, pin, pin_len0, fill_digit, pinblock) ==
    LET pin_len == pin_len0 % 16
        fill == BitOr(Shl4(fill_digit), fill_digit) % 256
        filled == [k \in DOMAIN pinblock |->
                     IF k < PINBLOCK_SIZE THEN fill ELSE pinblock[k]]
        header == [filled EXCEPT ![0] = BitOr(Shl4(format), pin_len)]
    IN  pack_pin_digits(pin, pin_len, 0, header)

pinblock_pack_pin(format, pin, pin_len0, fill_digit, pinblock) ==
    LET pin_len == pin_len0 % 16
        fill == BitOr(Shl4(fill_digit), fill_digit) % 256
        filled == [k \in DOMAIN pinblock |->
                     IF k < PINBLOCK_SIZE THEN fill ELSE pinblock[k]]
        header == [filled EXCEPT ![0] = BitOr(Shl4(format), pin_len)]
        packed == pack_pin_digits(pin, pin_len, 0, header)
    IN  IF pin_len % 2 = 1
        THEN [packed EXCEPT ![(pin_len \div 2) + 1] = BitOr(@, fill_digit % 16)]
        ELSE packed

\* for (i = 0; i < pin_len; ++i) of pinblock_pack_pin_with_nonce
RECURSIVE pack_nonce_pin_digits(_, _, _, _)
pack_nonce_pin_digits(pin, pin_len, i, pinblock) ==
    IF i >= pin_len THEN pinblock
    ELSE pack_nonce_pin_digits(pin, pin_len, i + 1,
            IF i % 2 = 0
            THEN [pinblock EXCEPT ![(i \div 2) + 1] = Shl4(pin[i])]
            ELSE [pinblock EXCEPT ![(i \div 2) + 1] = BitOr(@, BitAnd(pin[i], 15))])

\* for (i = pin_len; i < (PINBLOCK_SIZE - 1) * 2 && nonce_len; ++i)
RECURSIVE pack_nonce_padding(_, _, _, _, _)
pack_nonce_padding(pin_len, nonce, nonce_len, i, pinblock) ==
    IF ~(i < (PINBLOCK_SIZE - 1) * 2 /\ nonce_len # 0) THEN pinblock
    ELSE LET nonce_idx == i - pin_len
             digit == IF nonce_idx % 2 = 0
                      THEN Shr4(nonce[nonce_idx \div 2])
                      ELSE BitAnd(nonce[nonce_idx \div 2], 15)
             left == IF nonce_idx % 2 = 0 THEN nonce_len ELSE nonce_len - 1
         IN  pack_nonce_padding(pin_len, nonce, left, i + 1,
                IF i % 2 = 0
                THEN [pinblock EXCEPT ![(i \div 2) + 1] = Shl4(digit)]
                ELSE [pinblock EXCEPT ![(i \div 2) + 1] = BitOr(@, digit)])

\* pinblock_pack_pin_with_nonce storing the format without the PIN length
pinblock_pack_pin_with_nonce_no_len(format, pin, pin_len0, nonce, nonce_len, pinblock) ==
    LET pin_len == pin_len0 % 16
        header == [pinblock EXCEPT ![0] = Shl4(format)]
        packed == pack_nonce_pin_digits(pin, pin_len, 0, header)
    IN  pack_nonce_padding(pin_len, nonce, nonce_len, pin_len, packed)

pinblock_pack_pin_with_nonce(format, pin, pin_len0, nonce, nonce_len, pinblock) ==
    LET pin_len == pin_len0 % 16
        header == [pinblock EXCEPT ![0] = BitOr(Shl4(format), pin_len)]
        packed == pack_nonce_pin_digits(pin, pin_len, 0, header)
    IN  pack_nonce_padding(pin_len, nonce, nonce_len, pin_len, packed)

\* pinblock_unpack_pin reducing every nibble to a decimal digit
pinblock_unpack_pin_decimal(pinblock, pin, pin_len) ==
    [k \in DOMAIN pin |->
        IF k < pin_len
        THEN IF k % 2 = 0 THEN Shr4(pinblock[(k \div 2) + 1]) % 10
                          ELSE BitAnd(pinblock[(k \div 2) + 1], 15) % 10
        ELSE pin[k]]

\* pinblock_unpack_pin reading the two nibbles of each byte in the wrong order
pinblock_unpack_pin_swapped(pinblock, pin, pin_len) ==
    [k \in DOMAIN pin |->
        IF k < pin_len
        THEN IF k % 2 = 0 THEN BitAnd(pinblock[(k \div 2) + 1], 15)
                          ELSE Shr4(pinblock[(k \div 2) + 1])
        ELSE pin[k]]

\* pin output buffer after unpacking pin_len digits from the second byte on
pinblock_unpack_pin(pinblock, pin, pin_len) ==
    [k \in DOMAIN pin |->
        IF k < pin_len
        THEN IF k % 2 = 0 THEN Shr4(pinblock[(k \div 2) + 1])
                          ELSE BitAnd(pinblock[(k \div 2) + 1], 15)
        ELSE pin[k]]

\* ------------------------------------------------------ PAN field deriver
\* while (pan_len > 0 && panfield_len > 0 && panfield_idx < 12)
RECURSIVE pack_pan_loop(_, _, _, _, _, _, _)
pack_pan_loop(pan, pan_len, pan_idx, panfield_len, panfield_idx, check_digit_found, panfield) ==
    IF ~(pan_len > 0 /\ panfield_len > 0 /\ panfield_idx < 12) THEN panfield
    ELSE LET digit == IF pan_idx % 2 = 0
                      THEN BitAnd(pan[pan_len - 1], 15)
                      ELSE Shr4(pan[pan_len - 1])
             pan_len1 == IF pan_idx % 2 = 0 THEN pan_len ELSE pan_len - 1
         IN  IF digit = 15
             THEN pack_pan_loop(pan, pan_len1, pan_idx + 1, panfield_len,
                                panfield_idx, check_digit_found, panfield)
             ELSE IF ~check_digit_found
             THEN pack_pan_loop(pan, pan_len1, pan_idx + 1, panfield_len,
                                panfield_idx, TRUE, panfield)
             ELSE IF panfield_idx % 2 = 0
             THEN pack_pan_loop(pan, pan_len1, pan_idx + 1, panfield_len,
                                panfield_idx + 1, check_digit_found,
                                [panfield EXCEPT ![panfield_len - 1] = digit])
             ELSE pack_pan_loop(pan, pan_len1, pan_idx + 1, panfield_len - 1,
                                panfield_idx + 1, check_digit_found,
                                [panfield EXCEPT ![panfield_len - 1] =
                                                    BitOr(@, Shl4(digit))])

\* pinblock_pack_pan packing 16 digits instead of 12
pinblock_pack_pan_16_digits(pan, pan_len) ==
    pack_pan_loop(pan, pan_len, 0, PINBLOCK_SIZE, 0 - 4, FALSE,
                  [k \in 0..(PINBLOCK_SIZE - 1) |-> 0])

\* pinblock_pack_pan keeping the check digit
pinblock_pack_pan_keep_check_digit(pan, pan_len) ==
    pack_pan_loop(pan, pan_len, 0, PINBLOCK_SIZE, 0, TRUE,
                  [k \in 0..(PINBLOCK_SIZE - 1) |-> 0])

pinblock_pack_pan(pan, pan_len) ==
    pack_pan_loop(pan, pan_len, 0, PINBLOCK_SIZE, 0, FALSE,
                  [k \in 0..(PINBLOCK_SIZE - 1) |-> 0])

\* ---------------------------------------------------- external services
\* x[i] ^= y[i] for i < len
crypto_xor(x, y, len) ==
    [k \in DOMAIN x |-> IF k < len THEN BitXor(x[k], y[k]) ELSE x[k]]

\* the first len bytes of buf are replaced by the bytes the source returns
crypto_rand(buf, len, rand) ==
    [k \in DOMAIN buf |-> IF k < len THEN rand[k] ELSE buf[k]]

\* the first len bytes of buf are set to zero
crypto_cleanse(buf, len) ==
    [k \in DOMAIN buf |-> IF k < len THEN 0 ELSE buf[k]]

\* memcmp(a, b, n) != 0
memcmp_differs(a, b, n) == \E k \in 0..(n - 1) : a[k] # b[k]

\* A local array before anything is stored in it.
Uninitialised(n) == [k \in 0..(n - 1) |-> Unwritten]

\* ------------------------------------------------------------- Format 0
pinblock_encode_iso9564_format0(pin, pin_len, pan, pan_len, pinblock) ==
    IF pin = NULL \/ pin_len = 0 \/ pan = NULL \/ pan_len = 0 \/ pinblock = NULL
    THEN [r |-> -1, pinblock |-> pinblock]
    ELSE IF pin_len < 4 \/ pin_len > 12
    THEN [r |-> -2, pinblock |-> pinblock]
    ELSE LET pinfield == pinblock_pack_pin(PINBLOCK_ISO9564_FORMAT_0, pin, pin_len,
                                           15, pinblock)
             panfield == pinblock_pack_pan(pan, pan_len)
         IN  [r |-> 0, pinblock |-> crypto_xor(pinfield, panfield, PINBLOCK_SIZE)]

pinblock_decode_iso9564_format0(pinblock, pinblock_len, pan, pan_len, pin, pin_len) ==
    IF pinblock = NULL \/ pinblock_len = 0 \/ pan = NULL \/ pan_len = 0
       \/ pin = NULL \/ pin_len = NULL
    THEN [r |-> -1, pin |-> pin, pin_len |-> pin_len]
    ELSE IF pinblock_len # PINBLOCK_SIZE
    THEN [r |-> 1, pin |-> pin, pin_len |-> [pin_len EXCEPT ![0] = 0]]
    ELSE IF Shr4(pinblock[0]) # PINBLOCK_ISO9564_FORMAT_0
    THEN [r |-> 2, pin |-> pin, pin_len |-> [pin_len EXCEPT ![0] = 0]]
    ELSE LET decoded_pin_len == BitAnd(pinblock[0], 15)
         IN  IF decoded_pin_len < 4 \/ decoded_pin_len > 12
             THEN [r |-> -2, pin |-> pin, pin_len |-> [pin_len EXCEPT ![0] = 0]]
             ELSE LET panfield == pinblock_pack_pan(pan, pan_len)
                      pinfield == crypto_xor(
                                     [k \in 0..(PINBLOCK_SIZE - 1) |-> pinblock[k]],
                                     panfield, PINBLOCK_SIZE)
                  IN  IF memcmp_differs(pinblock, pinfield, 2)
                      THEN [r |-> -3, pin |-> pin,
                            pin_len |-> [pin_len EXCEPT ![0] = 0]]
                      ELSE [r |-> 0,
                            pin |-> pinblock_unpack_pin(pinfield, pin, decoded_pin_len),
                            pin_len |-> [pin_len EXCEPT ![0] = decoded_pin_len]]

\* ------------------------------------------------------------- Format 1
\* reverse_nonce copying the nonce from its first byte forward
reverse_nonce_forward(nonce, nonce_len) ==
    [k \in 0..(PINBLOCK_SIZE - 1) |->
        IF k < nonce_len THEN nonce[k] ELSE Unwritten]

\* nonce_field[i] = nonce[nonce_len - 1 - i] for i < sizeof(nonce_field), i < nonce_len
reverse_nonce(nonce, nonce_len) ==
    [k \in 0..(PINBLOCK_SIZE - 1) |->
        IF k < nonce_len THEN nonce[nonce_len - 1 - k] ELSE Unwritten]

\* pinblock_encode_iso9564_format1 rejecting a nonce of exactly the needed length
pinblock_encode_iso9564_format1_off_by_one(pin, pin_len, nonce, nonce_len, pinblock, rand) ==
    IF pin = NULL \/ pin_len = 0 \/ pinblock = NULL
    THEN [r |-> -1, pinblock |-> pinblock]
    ELSE IF pin_len < 4 \/ pin_len > 12
    THEN [r |-> -2, pinblock |-> pinblock]
    ELSE IF nonce # NULL /\ nonce_len # 0
            /\ nonce_len <= PINBLOCK_SIZE - 1 - (pin_len \div 2)
    THEN [r |-> -3, pinblock |-> pinblock]
    ELSE IF nonce = NULL
    THEN LET random_len == PINBLOCK_SIZE - 1 - (pin_len \div 2)
             nonce_field == crypto_rand(Uninitialised(PINBLOCK_SIZE), random_len, rand)
         IN  [r |-> 0,
              pinblock |-> pinblock_pack_pin_with_nonce(PINBLOCK_ISO9564_FORMAT_1,
                              pin, pin_len, nonce_field, random_len, pinblock)]
    ELSE [r |-> 0,
          pinblock |-> pinblock_pack_pin_with_nonce(PINBLOCK_ISO9564_FORMAT_1,
                          pin, pin_len, reverse_nonce(nonce, nonce_len), nonce_len,
                          pinblock)]

pinblock_encode_iso9564_format1(pin, pin_len, nonce, nonce_len, pinblock, rand) ==
    IF pin = NULL \/ pin_len = 0 \/ pinblock = NULL
    THEN [r |-> -1, pinblock |-> pinblock]
    ELSE IF pin_len < 4 \/ pin_len > 12
    THEN [r |-> -2, pinblock |-> pinblock]
    ELSE IF nonce # NULL /\ nonce_len # 0
            /\ nonce_len < PINBLOCK_SIZE - 1 - (pin_len \div 2)
    THEN [r |-> -3, pinblock |-> pinblock]
    ELSE IF nonce = NULL
    THEN LET random_len == PINBLOCK_SIZE - 1 - (pin_len \div 2)
             nonce_field == crypto_rand(Uninitialised(PINBLOCK_SIZE), random_len, rand)
         IN  [r |-> 0,
              pinblock |-> pinblock_pack_pin_with_nonce(PINBLOCK_ISO9564_FORMAT_1,
                              pin, pin_len, nonce_field, random_len, pinblock)]
    ELSE [r |-> 0,
          pinblock |-> pinblock_pack_pin_with_nonce(PINBLOCK_ISO9564_FORMAT_1,
                          pin, pin_len, reverse_nonce(nonce, nonce_len), nonce_len,
                          pinblock)]

\* The number of bytes pinblock_encode_iso9564_format1 asks of the random source.
format1_rand_len(pin, pin_len, nonce, nonce_len, pinblock) ==
    IF pin = NULL \/ pin_len = 0 \/ pinblock = NULL THEN 0
    ELSE IF pin_len < 4 \/ pin_len > 12 THEN 0
    ELSE IF nonce # NULL /\ nonce_len # 0
            /\ nonce_len < PINBLOCK_SIZE - 1 - (pin_len \div 2) THEN 0
    ELSE IF nonce = NULL THEN PINBLOCK_SIZE - 1 - (pin_len \div 2)
    ELSE 0

pinblock_decode_iso9564_format1(pinblock, pinblock_len, pin, pin_len) ==
    IF pinblock = NULL \/ pinblock_len = 0 \/ pin = NULL \/ pin_len = NULL
    THEN [r |-> -1, pin |-> pin, pin_len |-> pin_len]
    ELSE IF pinblock_len # PINBLOCK_SIZE
    THEN [r |-> 1, pin |-> pin, pin_len |-> [pin_len EXCEPT ![0] = 0]]
    ELSE IF Shr4(pinblock[0]) # PINBLOCK_ISO9564_FORMAT_1
    THEN [r |-> 2, pin |-> pin, pin_len |-> [pin_len EXCEPT ![0] = 0]]
    ELSE LET decoded_pin_len == BitAnd(pinblock[0], 15)
         IN  IF decoded_pin_len < 4 \/ decoded_pin_len > 12
             THEN [r |-> -2, pin |-> pin, pin_len |-> [pin_len EXCEPT ![0] = 0]]
             ELSE [r |-> 0,
                   pin |-> pinblock_unpack_pin(pinblock, pin, decoded_pin_len),
                   pin_len |-> [pin_len EXCEPT ![0] = decoded_pin_len]]

\* ------------------------------------------------------------- Format 2
\* pinblock_encode_iso9564_format2 filling with 0x0 instead of 0xF
pinblock_encode_iso9564_format2_zero_fill(pin, pin_len, pinblock) ==
    IF pin = NULL \/ pin_len = 0 \/ pinblock = NULL
    THEN [r |-> -1, pinblock |-> pinblock]
    ELSE IF pin_len < 4 \/ pin_len > 12
    THEN [r |-> -2, pinblock |-> pinblock]
    ELSE [r |-> 0,
          pinblock |-> pinblock_pack_pin(PINBLOCK_ISO9564_FORMAT_2, pin, pin_len,
                                         0, pinblock)]

pinblock_encode_iso9564_format2(pin, pin_len, pinblock) ==
    IF pin = NULL \/ pin_len = 0 \/ pinblock = NULL
    THEN [r |-> -1, pinblock |-> pinblock]
    ELSE IF pin_len < 4 \/ pin_len > 12
    THEN [r |-> -2, pinblock |-> pinblock]
    ELSE [r |-> 0,
          pinblock |-> pinblock_pack_pin(PINBLOCK_ISO9564_FORMAT_2, pin, pin_len,
                                         15, pinblock)]

\* pinblock_decode_iso9564_format2 checking the format before the size
pinblock_decode_iso9564_format2_format_first(pinblock, pinblock_len, pin, pin_len) ==
    IF pinblock = NULL \/ pinblock_len = 0 \/ pin = NULL \/ pin_len = NULL
    THEN [r |-> -1, pin |-> pin, pin_len |-> pin_len]
    ELSE IF Shr4(pinblock[0]) # PINBLOCK_ISO9564_FORMAT_2
    THEN [r |-> 2, pin |-> pin, pin_len |-> [pin_len EXCEPT ![0] = 0]]
    ELSE IF pinblock_len # PINBLOCK_SIZE
    THEN [r |-> 1, pin |-> pin, pin_len |-> [pin_len EXCEPT ![0] = 0]]
    ELSE LET decoded_pin_len == BitAnd(pinblock[0], 15)
         IN  IF decoded_pin_len < 4 \/ decoded_pin_len > 12
             THEN [r |-> -2, pin |-> pin, pin_len |-> [pin_len EXCEPT ![0] = 0]]
             ELSE [r |-> 0,
                   pin |-> pinblock_unpack_pin(pinblock, pin, decoded_pin_len),
                   pin_len |-> [pin_len EXCEPT ![0] = decoded_pin_len]]

pinblock_decode_iso9564_format2(pinblock, pinblock_len, pin, pin_len) ==
    IF pinblock = NULL \/ pinblock_len = 0 \/ pin = NULL \/ pin_len = NULL
    THEN [r |-> -1, pin |-> pin, pin_len |-> pin_len]
    ELSE IF pinblock_len # PINBLOCK_SIZE
    THEN [r |-> 1, pin |-> pin, pin_len |-> [pin_len EXCEPT ![0] = 0]]
    ELSE IF Shr4(pinblock[0]) # PINBLOCK_ISO9564_FORMAT_2
    THEN [r |-> 2, pin |-> pin, pin_len |-> [pin_len EXCEPT ![0] = 0]]
    ELSE LET decoded_pin_len == BitAnd(pinblock[0], 15)
         IN  IF decoded_pin_len < 4 \/ decoded_pin_len > 12
             THEN [r |-> -2, pin |-> pin, pin_len |-> [pin_len EXCEPT ![0] = 0]]
             ELSE [r |-> 0,
                   pin |-> pinblock_unpack_pin(pinblock, pin, decoded_pin_len),
                   pin_len |-> [pin_len EXCEPT ![0] = decoded_pin_len]]

\* ------------------------------------------------------------- Format 3
\* scaled_nonce taking the remainder instead of scaling
scaled_nonce_remainder(b) == (b % 6) + 10

\* ((((uint16_t)b) * 6) >> 8) + 0xA
scaled_nonce(b) == (((b * 6) % 65536) \div 256) + 10

\* the 5 byte nonce built from 10 random bytes
format3_nonce(nonce_input) ==
    [k \in 0..4 |->
        BitOr(Shl4(scaled_nonce(nonce_input[k * 2])),
              BitAnd(scaled_nonce(nonce_input[k * 2 + 1]), 15))]

pinblock_encode_iso9564_format3(pin, pin_len, pan, pan_len, pinblock, rand) ==
    IF pin = NULL \/ pin_len = 0 \/ pan = NULL \/ pan_len = 0 \/ pinblock = NULL
    THEN [r |-> -1, pinblock |-> pinblock]
    ELSE IF pin_len < 4 \/ pin_len > 12
    THEN [r |-> -2, pinblock |-> pinblock]
    ELSE LET nonce_input == crypto_rand(Uninitialised(10), 10, rand)
             nonce == format3_nonce(nonce_input)
             pinfield == pinblock_pack_pin_with_nonce(PINBLOCK_ISO9564_FORMAT_3,
                             pin, pin_len, nonce, 5, pinblock)
             panfield == pinblock_pack_pan(pan, pan_len)
         IN  [r |-> 0, pinblock |-> crypto_xor(pinfield, panfield, PINBLOCK_SIZE)]

\* pinblock_encode_iso9564_format3 drawing its random bytes before it validates
\* the PIN length
format3_rand_len_before_validation(pin, pin_len, pan, pan_len, pinblock) ==
    IF pin = NULL \/ pin_len = 0 \/ pan = NULL \/ pan_len = 0 \/ pinblock = NULL
    THEN 0
    ELSE 10

\* The number of bytes pinblock_encode_iso9564_format3 asks of the random source.
format3_rand_len(pin, pin_len, pan, pan_len, pinblock) ==
    IF pin = NULL \/ pin_len = 0 \/ pan = NULL \/ pan_len = 0 \/ pinblock = NULL
    THEN 0
    ELSE IF pin_len < 4 \/ pin_len > 12 THEN 0
    ELSE 10

pinblock_decode_iso9564_format3(pinblock, pinblock_len, pan, pan_len, pin, pin_len) ==
    IF pinblock = NULL \/ pinblock_len = 0 \/ pan = NULL \/ pan_len = 0
       \/ pin = NULL \/ pin_len = NULL
    THEN [r |-> -1, pin |-> pin, pin_len |-> pin_len]
    ELSE IF pinblock_len # PINBLOCK_SIZE
    THEN [r |-> 1, pin |-> pin, pin_len |-> [pin_len EXCEPT ![0] = 0]]
    ELSE IF Shr4(pinblock[0]) # PINBLOCK_ISO9564_FORMAT_3
    THEN [r |-> 2, pin |-> pin, pin_len |-> [pin_len EXCEPT ![0] = 0]]
    ELSE LET decoded_pin_len == BitAnd(pinblock[0], 15)
         IN  IF decoded_pin_len < 4 \/ decoded_pin_len > 12
             THEN [r |-> -2, pin |-> pin, pin_len |-> [pin_len EXCEPT ![0] = 0]]
             ELSE LET panfield == pinblock_pack_pan(pan, pan_len)
                      pinfield == crypto_xor(
                                     [k \in 0..(PINBLOCK_SIZE - 1) |-> pinblock[k]],
                                     panfield, PINBLOCK_SIZE)
                  IN  IF memcmp_differs(pinblock, pinfield, 2)
                      THEN [r |-> -3, pin |-> pin,
                            pin_len |-> [pin_len EXCEPT ![0] = 0]]
                      ELSE [r |-> 0,
                            pin |-> pinblock_unpack_pin(pinfield, pin, decoded_pin_len),
                            pin_len |-> [pin_len EXCEPT ![0] = decoded_pin_len]]

\* ------------------------------------------------------------- Format 4
\* rand_second_half writing the random bytes from the start of the PIN field
rand_second_half_at_start(pinfield, rand) ==
    [k \in DOMAIN pinfield |->
        IF k < PINBLOCK128_SIZE \div 2 THEN rand[k] ELSE pinfield[k]]

\* crypto_rand(pinfield + PINBLOCK128_SIZE / 2, PINBLOCK128_SIZE / 2)
rand_second_half(pinfield, rand) ==
    [k \in DOMAIN pinfield |->
        IF k >= PINBLOCK128_SIZE \div 2 /\ k < PINBLOCK128_SIZE
        THEN rand[k - PINBLOCK128_SIZE \div 2]
        ELSE pinfield[k]]

\* pinblock_encode_iso9564_format4_pinfield leaving out the random second half
pinblock_encode_iso9564_format4_pinfield_no_rand(pin, pin_len, pinfield, rand) ==
    IF pin = NULL \/ pin_len = 0 \/ pinfield = NULL
    THEN [r |-> -1, pinblock |-> pinfield]
    ELSE IF pin_len < 4 \/ pin_len > 12
    THEN [r |-> -2, pinblock |-> pinfield]
    ELSE [r |-> 0,
          pinblock |-> pinblock_pack_pin(PINBLOCK_ISO9564_FORMAT_4, pin, pin_len,
                                         10, pinfield)]

\* pinblock_encode_iso9564_format4_pinfield rejecting a PIN of 12 digits
pinblock_encode_iso9564_format4_pinfield_max_11(pin, pin_len, pinfield, rand) ==
    IF pin = NULL \/ pin_len = 0 \/ pinfield = NULL
    THEN [r |-> -1, pinblock |-> pinfield]
    ELSE IF pin_len < 4 \/ pin_len >= 12
    THEN [r |-> -2, pinblock |-> pinfield]
    ELSE [r |-> 0,
          pinblock |-> rand_second_half(
                          pinblock_pack_pin(PINBLOCK_ISO9564_FORMAT_4, pin, pin_len,
                                            10, pinfield),
                          rand)]

pinblock_encode_iso9564_format4_pinfield(pin, pin_len, pinfield, rand) ==
    IF pin = NULL \/ pin_len = 0 \/ pinfield = NULL
    THEN [r |-> -1, pinblock |-> pinfield]
    ELSE IF pin_len < 4 \/ pin_len > 12
    THEN [r |-> -2, pinblock |-> pinfield]
    ELSE [r |-> 0,
          pinblock |-> rand_second_half(
                          pinblock_pack_pin(PINBLOCK_ISO9564_FORMAT_4, pin, pin_len,
                                            10, pinfield),
                          rand)]

\* The number of bytes pinblock_encode_iso9564_format4_pinfield asks of the
\* random source.
format4_rand_len(pin, pin_len, pinfield) ==
    IF pin = NULL \/ pin_len = 0 \/ pinfield = NULL THEN 0
    ELSE IF pin_len < 4 \/ pin_len > 12 THEN 0
    ELSE PINBLOCK128_SIZE \div 2

pinblock_decode_iso9564_format4_pinfield(pinfield, pinfield_len, pin, pin_len) ==
    IF pinfield = NULL \/ pin = NULL \/ pin_len = NULL
    THEN [r |-> -1, pin |-> pin, pin_len |-> pin_len]
    ELSE IF pinfield_len # PINBLOCK128_SIZE
    THEN [r |-> 1, pin |-> pin, pin_len |-> [pin_len EXCEPT ![0] = 0]]
    ELSE IF Shr4(pinfield[0]) # PINBLOCK_ISO9564_FORMAT_4
    THEN [r |-> 2, pin |-> pin, pin_len |-> [pin_len EXCEPT ![0] = 0]]
    ELSE LET decoded_pin_len == BitAnd(pinfield[0], 15)
         IN  IF decoded_pin_len < 4 \/ decoded_pin_len > 12
             THEN [r |-> -2, pin |-> pin, pin_len |-> [pin_len EXCEPT ![0] = 0]]
             ELSE [r |-> 0,
                   pin |-> pinblock_unpack_pin(pinfield, pin, decoded_pin_len),
                   pin_len |-> [pin_len EXCEPT ![0] = decoded_pin_len]]

\* ---------------------------------------------------- Format 4 PAN field
\* memset(panfield, 0, PINBLOCK128_SIZE)
memset_panfield(panfield) ==
    [k \in DOMAIN panfield |-> IF k < PINBLOCK128_SIZE THEN 0 ELSE panfield[k]]

\* while (pan_len > 0 && panfield_idx > 0) of the branch for a short PAN
RECURSIVE panfield_short_loop(_, _, _, _, _)
panfield_short_loop(pan, pan_len, pan_idx, panfield_idx, panfield) ==
    IF ~(pan_len > 0 /\ panfield_idx > 0) THEN panfield
    ELSE LET digit == IF pan_idx % 2 = 0
                      THEN BitAnd(pan[pan_len - 1], 15)
                      ELSE Shr4(pan[pan_len - 1])
             pan_len1 == IF pan_idx % 2 = 0 THEN pan_len ELSE pan_len - 1
         IN  IF digit = 15
             THEN panfield_short_loop(pan, pan_len1, pan_idx + 1, panfield_idx, panfield)
             ELSE IF panfield_idx % 2 = 0
             THEN panfield_short_loop(pan, pan_len1, pan_idx + 1, panfield_idx - 1,
                    [panfield EXCEPT ![panfield_idx \div 2] = BitOr(@, Shl4(digit))])
             ELSE panfield_short_loop(pan, pan_len1, pan_idx + 1, panfield_idx - 1,
                    [panfield EXCEPT ![panfield_idx \div 2] = digit])

\* while (pan_len > 0 && panfield_len > 0) of the branch for a long PAN; yields
\* the PAN field and pan_idx, the number of digits packed
RECURSIVE panfield_long_loop(_, _, _, _, _, _)
panfield_long_loop(pan, pan_len, pan_idx, panfield_len, panfield_idx, panfield) ==
    IF ~(pan_len > 0 /\ panfield_len > 0)
    THEN [panfield |-> panfield, pan_idx |-> pan_idx]
    ELSE LET digit == IF pan_idx % 2 = 0
                      THEN Shr4(pan[pan_idx \div 2])
                      ELSE BitAnd(pan[pan_idx \div 2], 15)
             pan_len1 == IF pan_idx % 2 = 0 THEN pan_len ELSE pan_len - 1
         IN  IF digit = 15
             THEN [panfield |-> panfield, pan_idx |-> pan_idx]
             ELSE IF panfield_idx % 2 = 0
             THEN panfield_long_loop(pan, pan_len1, pan_idx + 1, panfield_len,
                    panfield_idx + 1,
                    [panfield EXCEPT ![panfield_idx \div 2] = Shl4(digit)])
             ELSE panfield_long_loop(pan, pan_len1, pan_idx + 1, panfield_len - 1,
                    panfield_idx + 1,
                    [panfield EXCEPT ![panfield_idx \div 2] = BitOr(@, digit)])

\* populate_M storing the number of digits instead of the number beyond 12
populate_M_digit_count(pan_idx) == (pan_idx * 16) % 256

\* (uint8_t)((pan_idx - 12) << 4): the size_t difference wraps below zero and the
\* byte keeps its low 8 bits
populate_M(pan_idx) == ((pan_idx + 256 - 12) * 16) % 256

pinblock_encode_iso9564_format4_panfield(pan, pan_len, panfield) ==
    IF pan = NULL \/ pan_len = 0 \/ panfield = NULL
    THEN [r |-> -1, pinblock |-> panfield]
    ELSE IF pan_len < 6 \/ (pan_len = 6 /\ BitAnd(pan[pan_len - 1], 15) = 15)
    THEN [r |-> 0,
          pinblock |-> panfield_short_loop(pan, pan_len, 0, 12,
                                           memset_panfield(panfield))]
    ELSE LET long == panfield_long_loop(pan, pan_len, 0, PINBLOCK128_SIZE - 6, 1,
                                        memset_panfield(panfield))
         IN  [r |-> 0,
              pinblock |-> [long.panfield EXCEPT ![0] =
                               BitOr(@, populate_M(long.pan_idx))]]

\* ------------------------------------------------------------ Dispatcher
\* pinblock_get_format returning the control nibble whatever the length
pinblock_get_format_any_length(pinblock, pinblock_len) ==
    IF pinblock_len = PINBLOCK_SIZE \/ pinblock_len = PINBLOCK128_SIZE
    THEN IF Shr4(pinblock[0]) <= PINBLOCK_ISO9564_FORMAT_4
         THEN Shr4(pinblock[0]) ELSE -1
    ELSE -1

pinblock_get_format(pinblock, pinblock_len) ==
    IF pinblock_len = PINBLOCK_SIZE
    THEN IF Shr4(pinblock[0]) \in {PINBLOCK_ISO9564_FORMAT_0, PINBLOCK_ISO9564_FORMAT_1,
                                  PINBLOCK_ISO9564_FORMAT_2, PINBLOCK_ISO9564_FORMAT_3}
         THEN Shr4(pinblock[0]) ELSE -1
    ELSE IF pinblock_len = PINBLOCK128_SIZE
    THEN IF Shr4(pinblock[0]) = PINBLOCK_ISO9564_FORMAT_4
         THEN Shr4(pinblock[0]) ELSE -1
    ELSE -1

\* The indices of the block that pinblock_get_format reads.
get_format_reads(pinblock_len) ==
    IF pinblock_len = PINBLOCK_SIZE \/ pinblock_len = PINBLOCK128_SIZE
    THEN {0} ELSE {}

\* The result of a format decode together with the caller's format output.
WithFormat(res, format) ==
    [r |-> res.r, format |-> format, pin |-> res.pin, pin_len |-> res.pin_len]

\* pinblock_decode handing format 3 blocks to the format 0 decode
pinblock_decode_format3_as_0(pinblock, pinblock_len, other, other_len, format, pin, pin_len) ==
    IF pinblock = NULL \/ pinblock_len = 0 \/ format = NULL \/ pin = NULL \/ pin_len = NULL
    THEN [r |-> -1, format |-> format, pin |-> pin, pin_len |-> pin_len]
    ELSE IF pinblock_len = PINBLOCK_SIZE
    THEN LET f == Shr4(pinblock[0])
             format1 == [format EXCEPT ![0] = f]
         IN  IF f = PINBLOCK_ISO9564_FORMAT_0
             THEN WithFormat(pinblock_decode_iso9564_format0(pinblock, pinblock_len,
                                other, other_len, pin, pin_len), format1)
             ELSE IF f = PINBLOCK_ISO9564_FORMAT_1
             THEN WithFormat(pinblock_decode_iso9564_format1(pinblock, pinblock_len,
                                pin, pin_len), format1)
             ELSE IF f = PINBLOCK_ISO9564_FORMAT_2
             THEN WithFormat(pinblock_decode_iso9564_format2(pinblock, pinblock_len,
                                pin, pin_len), format1)
             ELSE IF f = PINBLOCK_ISO9564_FORMAT_3
             THEN WithFormat(pinblock_decode_iso9564_format0(pinblock, pinblock_len,
                                other, other_len, pin, pin_len), format1)
             ELSE [r |-> 5, format |-> format1, pin |-> pin, pin_len |-> pin_len]
    ELSE IF pinblock_len = PINBLOCK128_SIZE
    THEN LET f == Shr4(pinblock[0])
             format1 == [format EXCEPT ![0] = f]
         IN  IF f = PINBLOCK_ISO9564_FORMAT_4
             THEN WithFormat(pinblock_decode_iso9564_format4_pinfield(pinblock,
                                pinblock_len, pin, pin_len), format1)
             ELSE [r |-> 1, format |-> format1, pin |-> pin, pin_len |-> pin_len]
    ELSE [r |-> 1, format |-> format, pin |-> pin, pin_len |-> pin_len]

pinblock_decode(pinblock, pinblock_len, other, other_len, format, pin, pin_len) ==
    IF pinblock = NULL \/ pinblock_len = 0 \/ format = NULL \/ pin = NULL \/ pin_len = NULL
    THEN [r |-> -1, format |-> format, pin |-> pin, pin_len |-> pin_len]
    ELSE IF pinblock_len = PINBLOCK_SIZE
    THEN LET f == Shr4(pinblock[0])
             format1 == [format EXCEPT ![0] = f]
         IN  IF f = PINBLOCK_ISO9564_FORMAT_0
             THEN WithFormat(pinblock_decode_iso9564_format0(pinblock, pinblock_len,
                                other, other_len, pin, pin_len), format1)
             ELSE IF f = PINBLOCK_ISO9564_FORMAT_1
             THEN WithFormat(pinblock_decode_iso9564_format1(pinblock, pinblock_len,
                                pin, pin_len), format1)
             ELSE IF f = PINBLOCK_ISO9564_FORMAT_2
             THEN WithFormat(pinblock_decode_iso9564_format2(pinblock, pinblock_len,
                                pin, pin_len), format1)
             ELSE IF f = PINBLOCK_ISO9564_FORMAT_3
             THEN WithFormat(pinblock_decode_iso9564_format3(pinblock, pinblock_len,
                                other, other_len, pin, pin_len), format1)
             ELSE [r |-> 5, format |-> format1, pin |-> pin, pin_len |-> pin_len]
    ELSE IF pinblock_len = PINBLOCK128_SIZE
    THEN LET f == Shr4(pinblock[0])
             format1 == [format EXCEPT ![0] = f]
         IN  IF f = PINBLOCK_ISO9564_FORMAT_4
             THEN WithFormat(pinblock_decode_iso9564_format4_pinfield(pinblock,
                                pinblock_len, pin, pin_len), format1)
             ELSE [r |-> 1, format |-> format1, pin |-> pin, pin_len |-> pin_len]
    ELSE [r |-> 1, format |-> format, pin |-> pin, pin_len |-> pin_len]

\* --------------------------------------------------- local scratch buffers
\* The local arrays of a function as they are when it returns, in the order of
\* their declaration.
\* uint8_t panfield[PINBLOCK_SIZE] of pinblock_encode_iso9564_format0
encode_format0_locals(pin, pin_len, pan, pan_len, pinblock) ==
    IF pin = NULL \/ pin_len = 0 \/ pan = NULL \/ pan_len = 0 \/ pinblock = NULL
    THEN <<Uninitialised(PINBLOCK_SIZE)>>
    ELSE IF pin_len < 4 \/ pin_len > 12
    THEN <<Uninitialised(PINBLOCK_SIZE)>>
    ELSE <<crypto_cleanse(pinblock_pack_pan(pan, pan_len), PINBLOCK_SIZE)>>

\* pinfield and panfield of pinblock_decode_iso9564_format0 and of
\* pinblock_decode_iso9564_format3, which differ in the format they accept
decode_masked_locals(format, pinblock, pinblock_len, pan, pan_len, pin, pin_len) ==
    IF pinblock = NULL \/ pinblock_len = 0 \/ pan = NULL \/ pan_len = 0
       \/ pin = NULL \/ pin_len = NULL
    THEN <<Uninitialised(PINBLOCK_SIZE), Uninitialised(PINBLOCK_SIZE)>>
    ELSE IF pinblock_len # PINBLOCK_SIZE
    THEN <<Uninitialised(PINBLOCK_SIZE), Uninitialised(PINBLOCK_SIZE)>>
    ELSE IF Shr4(pinblock[0]) # format
    THEN <<Uninitialised(PINBLOCK_SIZE), Uninitialised(PINBLOCK_SIZE)>>
    ELSE IF BitAnd(pinblock[0], 15) < 4 \/ BitAnd(pinblock[0], 15) > 12
    THEN <<Uninitialised(PINBLOCK_SIZE), Uninitialised(PINBLOCK_SIZE)>>
    ELSE LET panfield == pinblock_pack_pan(pan, pan_len)
             pinfield == crypto_xor([k \in 0..(PINBLOCK_SIZE - 1) |-> pinblock[k]],
                                    panfield, PINBLOCK_SIZE)
         IN  IF memcmp_differs(pinblock, pinfield, 2)
             THEN <<crypto_cleanse(pinfield, PINBLOCK_SIZE),
                    crypto_cleanse(panfield, PINBLOCK_SIZE)>>
             ELSE <<crypto_cleanse(pinfield, PINBLOCK_SIZE),
                    crypto_cleanse(panfield, PINBLOCK_SIZE)>>

\* uint8_t nonce_field[PINBLOCK_SIZE] of pinblock_encode_iso9564_format1
encode_format1_locals(pin, pin_len, nonce, nonce_len, pinblock, rand) ==
    IF pin = NULL \/ pin_len = 0 \/ pinblock = NULL
    THEN <<Uninitialised(PINBLOCK_SIZE)>>
    ELSE IF pin_len < 4 \/ pin_len > 12
    THEN <<Uninitialised(PINBLOCK_SIZE)>>
    ELSE IF nonce # NULL /\ nonce_len # 0
            /\ nonce_len < PINBLOCK_SIZE - 1 - (pin_len \div 2)
    THEN <<Uninitialised(PINBLOCK_SIZE)>>
    ELSE IF nonce = NULL
    THEN <<crypto_cleanse(crypto_rand(Uninitialised(PINBLOCK_SIZE),
                                      PINBLOCK_SIZE - 1 - (pin_len \div 2), rand),
                          PINBLOCK_SIZE)>>
    ELSE <<crypto_cleanse(reverse_nonce(nonce, nonce_len), PINBLOCK_SIZE)>>

\* encode_format3_locals without the crypto_cleanse of nonce_input
encode_format3_locals_nonce_input_kept(pin, pin_len, pan, pan_len, pinblock, rand) ==
    IF pin = NULL \/ pin_len = 0 \/ pan = NULL \/ pan_len = 0 \/ pinblock = NULL
    THEN <<Uninitialised(10), Uninitialised(5), Uninitialised(PINBLOCK_SIZE)>>
    ELSE IF pin_len < 4 \/ pin_len > 12
    THEN <<Uninitialised(10), Uninitialised(5), Uninitialised(PINBLOCK_SIZE)>>
    ELSE LET nonce_input == crypto_rand(Uninitialised(10), 10, rand)
         IN  <<nonce_input,
               crypto_cleanse(format3_nonce(nonce_input), 5),
               crypto_cleanse(pinblock_pack_pan(pan, pan_len), PINBLOCK_SIZE)>>

\* nonce_input[10], nonce[5] and panfield of pinblock_encode_iso9564_format3
encode_format3_locals(pin, pin_len, pan, pan_len, pinblock, rand) ==
    IF pin = NULL \/ pin_len = 0 \/ pan = NULL \/ pan_len = 0 \/ pinblock = NULL
    THEN <<Uninitialised(10), Uninitialised(5), Uninitialised(PINBLOCK_SIZE)>>
    ELSE IF pin_len < 4 \/ pin_len > 12
    THEN <<Uninitialised(10), Uninitialised(5), Uninitialised(PINBLOCK_SIZE)>>
    ELSE LET nonce_input == crypto_rand(Uninitialised(10), 10, rand)
         IN  <<crypto_cleanse(nonce_input, 10),
               crypto_cleanse(format3_nonce(nonce_input), 5),
               crypto_cleanse(pinblock_pack_pan(pan, pan_len), PINBLOCK_SIZE)>>

\* The local arrays of the decode that pinblock_decode hands the block to;
\* pinblock_decode has none of its own
pinblock_decode_locals(pinblock, pinblock_len, other, other_len, format, pin, pin_len) ==
    IF pinblock = NULL \/ pinblock_len = 0 \/ format = NULL \/ pin = NULL \/ pin_len = NULL
    THEN <<>>
    ELSE IF pinblock_len = PINBLOCK_SIZE
            /\ Shr4(pinblock[0]) \in {PINBLOCK_ISO9564_FORMAT_0, PINBLOCK_ISO9564_FORMAT_3}
    THEN decode_masked_locals(Shr4(pinblock[0]), pinblock, pinblock_len, other,
                              other_len, pin, pin_len)
    ELSE <<>>

\* ---------------------------------------------------------------- inputs
\* The buffer holding the bytes of a tuple.
Buf(seq) == [k \in 0..(Len(seq) - 1) |-> seq[k + 1]]

\* PIN digits (s+1), (s+2), ... modulo 10: 1234.., 2345.., 3456..
PinOf(len, s) == [k \in 0..(len - 1) |-> (k + 1 + s) % 10]
PINS == {PinOf(len, s) : len \in 0..MaxPinLen, s \in 0..MaxPinSeed}

\* Nibble n of a PAN of d digits 1,2,3,.. followed by 0xF padding
PanNibble(d, n) == IF n < d THEN (n + 1) % 10 ELSE 15
\* Compressed-numeric PAN of d digits, padded to a byte boundary, plus pad
\* further bytes 0xFF
PanOf(d, pad) ==
    [k \in 0..(((d + 1) \div 2) + pad - 1) |->
        PanNibble(d, 2 * k) * 16 + PanNibble(d, 2 * k + 1)]
PanDigitCounts == {0, 1, 12, 13, 16, 19}
\* 40 12 34 56 78 90 9F and the test's incorrect PAN 40 22 34 56 78 90 9F
TestPan == Buf(<<64, 18, 52, 86, 120, 144, 159>>)
BadPan == Buf(<<64, 34, 52, 86, 120, 144, 159>>)
PANS == {TestPan, BadPan} \cup {PanOf(d, pad) : d \in PanDigitCounts, pad \in 0..MaxPanPad}

\* PANs for the PAN field derivations: d digits 1,2,3,.. with nibble h replaced
\* by 0xF (no nibble when h is NoHole), padded with 0xF to a byte boundary and
\* followed by pad bytes 0xFF
NoHole == 0 - 1
HolePositions == {NoHole, 2, 13}
PanWithHole(d, pad, h) ==
    [k \in 0..(((d + 1) \div 2) + pad - 1) |->
        (IF 2 * k = h THEN 15 ELSE PanNibble(d, 2 * k)) * 16
        + (IF 2 * k + 1 = h THEN 15 ELSE PanNibble(d, 2 * k + 1))]
\* the PANs of the format 4 test: 41 11 11 11 11 11 11 11,
\* 41 11 11 11 11 11 11 1F and 12 34 56 78 9F
TestPan4 == Buf(<<65, 17, 17, 17, 17, 17, 17, 17>>)
TestPan4Padded == Buf(<<65, 17, 17, 17, 17, 17, 17, 31>>)
TestPan4Short == Buf(<<18, 52, 86, 120, 159>>)
PAN_FIELD_INPUTS ==
    {TestPan, BadPan, TestPan4, TestPan4Padded, TestPan4Short}
    \cup {PanWithHole(d, pad, h) :
             d \in 0..MaxPanDigits, pad \in 0..MaxPadBytes, h \in HolePositions}

\* Caller nonces: 12 34 56 78 9A BC DE F0 12 .. cut to n bytes
NonceOf(n) ==
    [k \in 0..(n - 1) |-> ((2 * k + 1) % 16) * 16 + ((2 * k + 2) % 16)]
\* 9A 33 C5 6F 87 A9 CB ED
TestNonce == Buf(<<154, 51, 197, 111, 135, 169, 203, 237>>)
\* (nonce, nonce_len) arguments; a null nonce comes with length 0 or 8
NONCE_ARGS ==
    {<<NULL, 0>>, <<NULL, PINBLOCK_SIZE>>, <<TestNonce, PINBLOCK_SIZE>>}
    \cup {<<NonceOf(n), n>> : n \in 0..MaxNonceLen}

\* Outputs of the random source: 16 bytes each, covering 0, 42, 43 and 255
RandOf(s) == [k \in 0..(PINBLOCK128_SIZE - 1) |-> (43 * k + 85 * s) % 256]
RANDS == {RandOf(s) : s \in 0..MaxRandSeed}
\* the first n bytes, those a call has drawn
Drawn(rnd, n) == [k \in 0..(n - 1) |-> rnd[k]]

\* Outputs of the random source in a second call: those of the first, each of
\* them with 1 added to every byte, and each of them with the lowest bit of
\* byte 4 flipped
RandNear(s) == [k \in 0..(PINBLOCK128_SIZE - 1) |-> (RandOf(s)[k] + 1) % 256]
RandTwin(s) == [RandOf(s) EXCEPT ![4] = BitXor(@, 1)]
SECOND_RANDS == RANDS \cup {RandNear(s) : s \in 0..MaxRandSeed} \cup {RandTwin(s) : s \in 0..MaxRandSeed}

\* Blocks the caller has received: any control nibble and length nibble in
\* byte 0, then 01 12 23 .. 89 90 01 .., in buffers of the two block sizes, of
\* their neighbours and of no byte at all
BlockLens == {0, PINBLOCK_SIZE - 1, PINBLOCK_SIZE, PINBLOCK_SIZE + 1,
              PINBLOCK128_SIZE, PINBLOCK128_SIZE + 1}
LengthNibbles == {0, 3, 4, 12, 13, 15}
BlockOf(n, c, l) ==
    [k \in 0..(n - 1) |->
        IF k = 0 THEN c * 16 + l ELSE (k % 10) * 16 + ((k + 1) % 10)]
BLOCKS == {BlockOf(n, c, l) : n \in BlockLens, c \in 0..15, l \in LengthNibbles}

\* (other, other_len) arguments of pinblock_decode: none, a PAN with length 0,
\* the test PAN and the incorrect test PAN
OTHER_ARGS ==
    {<<NULL, 0>>, <<TestPan, 0>>, <<TestPan, BufLen(TestPan)>>, <<BadPan, BufLen(BadPan)>>}

\* What the caller's buffers hold before the first call
PrevFill == {0, 90}

\* The indices of the output buffer that a call has stored to: those that
\* differ from Unwritten when the call runs on a buffer of Unwritten bytes.
Stored(out) == {k \in DOMAIN out : out[k] # Unwritten}
Blank(buf) == [k \in DOMAIN buf |-> Unwritten]

\* ------------------------------------------------------- buffer accesses
\* The indices at which a call reads and writes each buffer, in the order of
\* the statements of the source, as the set of the traces the call can have.
\* The bytes that may lie after a buffer
OutOfBoundsBytes == 0..255
\* The values the read of buf[i] can yield: a read inside the buffer yields
\* its byte; a read outside it is undefined and yields whatever byte lies
\* there, unless it ends the process
ReadAt(buf, i) == IF i \in DOMAIN buf THEN {buf[i]} ELSE OutOfBoundsBytes
\* The traces of a call that ends at a read of buf[i], having made acc
Faulted(buf, i, acc) == IF i \in DOMAIN buf THEN {} ELSE {acc}

\* pinblock_pack_pin: pin[i] for i < pin_len; the memset, pinblock[0],
\* pinblock[(i >> 1) + 1] and the nibble after an odd PIN
pack_pin_accesses(pin_len0) ==
    LET pin_len == pin_len0 % 16
    IN  [pin_reads |-> 0..(pin_len - 1),
         writes |-> (0..(PINBLOCK_SIZE - 1)) \cup {0}
                    \cup {(i \div 2) + 1 : i \in 0..(pin_len - 1)}
                    \cup (IF pin_len % 2 = 1 THEN {(pin_len \div 2) + 1} ELSE {})]

\* the padding loop of pinblock_pack_pin_with_nonce running up to nibble 16
RECURSIVE pack_nonce_padding_accesses_16(_, _, _, _)
pack_nonce_padding_accesses_16(pin_len, nonce_len, i, acc) ==
    IF ~(i < PINBLOCK_SIZE * 2 /\ nonce_len # 0) THEN acc
    ELSE LET nonce_idx == i - pin_len
             left == IF nonce_idx % 2 = 0 THEN nonce_len ELSE nonce_len - 1
         IN  pack_nonce_padding_accesses_16(pin_len, left, i + 1,
                [nonce_reads |-> acc.nonce_reads \cup {nonce_idx \div 2},
                 writes |-> acc.writes \cup {(i \div 2) + 1}])

\* for (i = pin_len; i < (PINBLOCK_SIZE - 1) * 2 && nonce_len; ++i): reads
\* nonce[nonce_idx >> 1], writes pinblock[(i >> 1) + 1]
RECURSIVE pack_nonce_padding_accesses(_, _, _, _)
pack_nonce_padding_accesses(pin_len, nonce_len, i, acc) ==
    IF ~(i < (PINBLOCK_SIZE - 1) * 2 /\ nonce_len # 0) THEN acc
    ELSE LET nonce_idx == i - pin_len
             left == IF nonce_idx % 2 = 0 THEN nonce_len ELSE nonce_len - 1
         IN  pack_nonce_padding_accesses(pin_len, left, i + 1,
                [nonce_reads |-> acc.nonce_reads \cup {nonce_idx \div 2},
                 writes |-> acc.writes \cup {(i \div 2) + 1}])

\* pinblock_pack_pin_with_nonce: pin[i], the nonce bytes and the block bytes
pack_pin_with_nonce_accesses(pin_len0, nonce_len) ==
    LET pin_len == pin_len0 % 16
        padding == pack_nonce_padding_accesses(pin_len, nonce_len, pin_len,
                      [nonce_reads |-> {},
                       writes |-> {0} \cup {(i \div 2) + 1 : i \in 0..(pin_len - 1)}])
    IN  [pin_reads |-> 0..(pin_len - 1),
         nonce_reads |-> padding.nonce_reads,
         writes |-> padding.writes]

\* pinblock_unpack_pin: *pin = digit; ++pin, pin_len times
unpack_pin_writes(pin_len) == 0..(pin_len - 1)

\* the loop of pinblock_pack_pan: reads pan[pan_len - 1], writes
\* panfield[panfield_len - 1]
RECURSIVE pack_pan_loop_accesses(_, _, _, _, _, _, _)
pack_pan_loop_accesses(pan, pan_len, pan_idx, panfield_len, panfield_idx, check_digit_found, acc) ==
    IF ~(pan_len > 0 /\ panfield_len > 0 /\ panfield_idx < 12) THEN {acc}
    ELSE LET digits == {IF pan_idx % 2 = 0 THEN BitAnd(b, 15) ELSE Shr4(b) :
                           b \in ReadAt(pan, pan_len - 1)}
             pan_len1 == IF pan_idx % 2 = 0 THEN pan_len ELSE pan_len - 1
             read == [acc EXCEPT !.pan_reads = @ \cup {pan_len - 1}]
             stored == [read EXCEPT !.writes = @ \cup {panfield_len - 1}]
             after(digit) ==
                IF digit = 15
                THEN pack_pan_loop_accesses(pan, pan_len1, pan_idx + 1, panfield_len,
                                            panfield_idx, check_digit_found, read)
                ELSE IF ~check_digit_found
                THEN pack_pan_loop_accesses(pan, pan_len1, pan_idx + 1, panfield_len,
                                            panfield_idx, TRUE, read)
                ELSE IF panfield_idx % 2 = 0
                THEN pack_pan_loop_accesses(pan, pan_len1, pan_idx + 1, panfield_len,
                                            panfield_idx + 1, check_digit_found, stored)
                ELSE pack_pan_loop_accesses(pan, pan_len1, pan_idx + 1, panfield_len - 1,
                                            panfield_idx + 1, check_digit_found, stored)
         IN  Faulted(pan, pan_len - 1, read) \cup UNION {after(digit) : digit \in digits}

\* pinblock_pack_pan: the memset of the 8 byte PAN field, then the loop
pack_pan_accesses(pan, pan_len) ==
    pack_pan_loop_accesses(pan, pan_len, 0, PINBLOCK_SIZE, 0, FALSE,
        [pan_reads |-> {}, writes |-> 0..(PINBLOCK_SIZE - 1)])

\* the loop for a short PAN of the format 4 PAN field: reads pan[pan_len - 1],
\* writes panfield[panfield_idx >> 1]
RECURSIVE panfield_short_loop_accesses(_, _, _, _, _)
panfield_short_loop_accesses(pan, pan_len, pan_idx, panfield_idx, acc) ==
    IF ~(pan_len > 0 /\ panfield_idx > 0) THEN {acc}
    ELSE LET digits == {IF pan_idx % 2 = 0 THEN BitAnd(b, 15) ELSE Shr4(b) :
                           b \in ReadAt(pan, pan_len - 1)}
             pan_len1 == IF pan_idx % 2 = 0 THEN pan_len ELSE pan_len - 1
             read == [acc EXCEPT !.pan_reads = @ \cup {pan_len - 1}]
             after(digit) ==
                IF digit = 15
                THEN panfield_short_loop_accesses(pan, pan_len1, pan_idx + 1,
                                                  panfield_idx, read)
                ELSE panfield_short_loop_accesses(pan, pan_len1, pan_idx + 1,
                        panfield_idx - 1,
                        [read EXCEPT !.writes = @ \cup {panfield_idx \div 2}])
         IN  Faulted(pan, pan_len - 1, read) \cup UNION {after(digit) : digit \in digits}

\* the loop for a long PAN of the format 4 PAN field: reads pan[pan_idx >> 1],
\* writes panfield[panfield_idx >> 1]
RECURSIVE panfield_long_loop_accesses(_, _, _, _, _, _)
panfield_long_loop_accesses(pan, pan_len, pan_idx, panfield_len, panfield_idx, acc) ==
    IF ~(pan_len > 0 /\ panfield_len > 0) THEN {acc}
    ELSE LET digits == {IF pan_idx % 2 = 0 THEN Shr4(b) ELSE BitAnd(b, 15) :
                           b \in ReadAt(pan, pan_idx \div 2)}
             pan_len1 == IF pan_idx % 2 = 0 THEN pan_len ELSE pan_len - 1
             read == [acc EXCEPT !.pan_reads = @ \cup {pan_idx \div 2}]
             after(digit) ==
                IF digit = 15 THEN {read}
                ELSE panfield_long_loop_accesses(pan, pan_len1, pan_idx + 1,
                        IF panfield_idx % 2 = 0 THEN panfield_len ELSE panfield_len - 1,
                        panfield_idx + 1,
                        [read EXCEPT !.writes = @ \cup {panfield_idx \div 2}])
         IN  Faulted(pan, pan_idx \div 2, read) \cup UNION {after(digit) : digit \in digits}

\* A call that touches no buffer
NoAccess ==
    [pin_reads |-> {}, pan_reads |-> {}, nonce_reads |-> {}, field_reads |-> {},
     field_init |-> {}, block_writes |-> {}, panfield_writes |-> {}, pin_writes |-> {}]

\* pinblock_encode_iso9564_format0 and _format2: pinblock_pack_pin, then for
\* format 0 pinblock_pack_pan into the local PAN field and crypto_xor
encode_filled_accesses(format, pin, pin_len, pan, pan_len, pinblock) ==
    IF pin = NULL \/ pin_len = 0 \/ pinblock = NULL THEN {NoAccess}
    ELSE IF format = PINBLOCK_ISO9564_FORMAT_0 /\ (pan = NULL \/ pan_len = 0) THEN {NoAccess}
    ELSE IF pin_len < 4 \/ pin_len > 12 THEN {NoAccess}
    ELSE LET packed == pack_pin_accesses(pin_len)
         IN  IF format = PINBLOCK_ISO9564_FORMAT_0
             THEN {[NoAccess EXCEPT !.pin_reads = packed.pin_reads,
                                    !.pan_reads = masked.pan_reads,
                                    !.panfield_writes = masked.writes,
                                    !.block_writes = packed.writes \cup 0..(PINBLOCK_SIZE - 1)] :
                      masked \in pack_pan_accesses(pan, pan_len)}
             ELSE {[NoAccess EXCEPT !.pin_reads = packed.pin_reads,
                                    !.block_writes = packed.writes]}

\* pinblock_encode_iso9564_format1: the nonce field is filled by crypto_rand
\* or by the reverse copy of the caller's nonce, then packed after the PIN
encode_format1_accesses(pin, pin_len, nonce, nonce_len, pinblock) ==
    IF pin = NULL \/ pin_len = 0 \/ pinblock = NULL THEN {NoAccess}
    ELSE IF pin_len < 4 \/ pin_len > 12 THEN {NoAccess}
    ELSE IF nonce # NULL /\ nonce_len # 0
            /\ nonce_len < PINBLOCK_SIZE - 1 - (pin_len \div 2) THEN {NoAccess}
    ELSE LET random_len == PINBLOCK_SIZE - 1 - (pin_len \div 2)
             copied == {i \in 0..(PINBLOCK_SIZE - 1) : i < nonce_len}
             packed == pack_pin_with_nonce_accesses(pin_len,
                          IF nonce = NULL THEN random_len ELSE nonce_len)
         IN  {[NoAccess EXCEPT
                !.pin_reads = packed.pin_reads,
                !.nonce_reads = IF nonce = NULL THEN {}
                                ELSE {nonce_len - 1 - i : i \in copied},
                !.field_init = IF nonce = NULL THEN 0..(random_len - 1) ELSE copied,
                !.field_reads = packed.nonce_reads,
                !.block_writes = packed.writes]}

\* pinblock_encode_iso9564_format3: nonce[i] is stored for i < sizeof(nonce),
\* packed after the PIN, and the block is masked with the local PAN field
encode_format3_accesses(pin, pin_len, pan, pan_len, pinblock) ==
    IF pin = NULL \/ pin_len = 0 \/ pan = NULL \/ pan_len = 0 \/ pinblock = NULL
    THEN {NoAccess}
    ELSE IF pin_len < 4 \/ pin_len > 12 THEN {NoAccess}
    ELSE LET packed == pack_pin_with_nonce_accesses(pin_len, 5)
         IN  {[NoAccess EXCEPT
                 !.pin_reads = packed.pin_reads,
                 !.pan_reads = masked.pan_reads,
                 !.field_init = 0..4,
                 !.field_reads = packed.nonce_reads,
                 !.panfield_writes = masked.writes,
                 !.block_writes = packed.writes \cup 0..(PINBLOCK_SIZE - 1)] :
                masked \in pack_pan_accesses(pan, pan_len)}

\* pinblock_encode_iso9564_format4_pinfield: pinblock_pack_pin, then
\* crypto_rand(pinfield + 8, 8)
encode_format4_pinfield_accesses(pin, pin_len, pinfield) ==
    IF pin = NULL \/ pin_len = 0 \/ pinfield = NULL THEN {NoAccess}
    ELSE IF pin_len < 4 \/ pin_len > 12 THEN {NoAccess}
    ELSE LET packed == pack_pin_accesses(pin_len)
         IN  {[NoAccess EXCEPT
                !.pin_reads = packed.pin_reads,
                !.block_writes = packed.writes
                    \cup {PINBLOCK128_SIZE \div 2 + k : k \in 0..(PINBLOCK128_SIZE \div 2 - 1)}]}

\* pinblock_encode_iso9564_format4_panfield: the memset of 16 bytes, the test
\* of the last nibble of a 6 byte PAN, either loop, and M in panfield[0]
encode_format4_panfield_accesses(pan, pan_len, panfield) ==
    IF pan = NULL \/ pan_len = 0 \/ panfield = NULL THEN {NoAccess}
    ELSE LET start == [pan_reads |-> IF pan_len = 6 THEN {pan_len - 1} ELSE {},
                       writes |-> 0..(PINBLOCK128_SIZE - 1)]
             last == IF pan_len = 6 THEN {BitAnd(b, 15) : b \in ReadAt(pan, pan_len - 1)}
                     ELSE {0}
             looped(nibble) ==
                IF pan_len < 6 \/ (pan_len = 6 /\ nibble = 15)
                THEN panfield_short_loop_accesses(pan, pan_len, 0, 12, start)
                ELSE {[reached EXCEPT !.writes = @ \cup {0}] :
                        reached \in panfield_long_loop_accesses(pan, pan_len, 0,
                                       PINBLOCK128_SIZE - 6, 1, start)}
             ended == IF pan_len = 6 THEN Faulted(pan, pan_len - 1, start) ELSE {}
         IN  {[NoAccess EXCEPT !.pan_reads = trace.pan_reads,
                               !.block_writes = trace.writes] :
                trace \in ended \cup UNION {looped(nibble) : nibble \in last}}

\* A decode of the format found in the block that has returned code: the
\* formats 0 and 3 derive the PAN field once the PIN length is accepted, and
\* every format unpacks decoded_pin_len digits when it returns 0
decode_accesses(code, pinblock, pan, pan_len) ==
    LET masks == IF code \in {0, -3} /\ Shr4(pinblock[0]) \in {PINBLOCK_ISO9564_FORMAT_0, PINBLOCK_ISO9564_FORMAT_3}
                 THEN pack_pan_accesses(pan, pan_len)
                 ELSE {[pan_reads |-> {}, writes |-> {}]}
    IN  {[NoAccess EXCEPT
            !.pan_reads = masked.pan_reads,
            !.panfield_writes = masked.writes,
            !.pin_writes = IF code = 0 THEN unpack_pin_writes(BitAnd(pinblock[0], 15))
                           ELSE {}] : masked \in masks}

\* ----------------------------------------------------------------- state
VARIABLES
    pin,              \* PIN passed to the last encode
    pan,              \* PAN passed to the last encode (NULL if none)
    nonce,            \* nonce passed to the last format 1 encode
    nonce_len,        \* its declared length
    rand,             \* bytes drawn from the random source by the last encode
    pinblock,         \* the caller's PIN block / PIN field buffer
    written,          \* indices of pinblock stored to by the last encode
    tamper,           \* <<index, mask>> of the bit flipped after encoding
    other,            \* PAN passed to the last decode (NULL if none)
    decoded_pin,      \* the caller's 12 byte PIN output buffer
    decoded_pin_len,  \* the caller's size_t PIN length output
    r,                \* return code of the last call
    enc,              \* format the buffer was successfully encoded in, or -1
    op,               \* the last operation
    decoded_format,   \* the caller's unsigned int format output
    locals,           \* the local arrays of the last call as it returned
    other_len,        \* the length passed with other to the last decode
    args,             \* the arguments of the last call made with arguments of any
                      \* validity, in the order of the C parameters
    pinblock2,        \* the caller's second PIN block buffer
    rand2             \* bytes drawn from the random source by the second encode

vars == <<pin, pan, nonce, nonce_len, rand, pinblock, written, tamper, other,
          decoded_pin, decoded_pin_len, r, enc, op, decoded_format, locals, other_len, args, pinblock2, rand2>>

NoFormat == 0 - 1

Init ==
    \E v \in PrevFill, n \in {PINBLOCK_SIZE, PINBLOCK128_SIZE} :
        /\ pin = <<>>
        /\ pan = NULL
        /\ nonce = NULL
        /\ nonce_len = 0
        /\ rand = <<>>
        /\ pinblock = [k \in 0..(n - 1) |-> v]
        /\ pinblock2 = [k \in 0..(n - 1) |-> v]
        /\ written = {}
        /\ tamper = <<>>
        /\ other = NULL
        /\ decoded_pin = [k \in 0..11 |-> v]
        /\ decoded_pin_len = [k \in {0} |-> v]
        /\ r = 0
        /\ enc = NoFormat
        /\ op = "init"
        /\ decoded_format = [k \in {0} |-> v]
        /\ locals = <<>>
        /\ other_len = 0
        /\ args = <<>>
        /\ rand2 = <<>>

\* An encode call has returned res; probe is the same call on a blank buffer.
Encoded(name, format, res, probe) ==
    /\ pinblock' = res.pinblock
    /\ r' = res.r
    /\ written' = Stored(probe.pinblock)
    /\ enc' = IF res.r = 0 THEN format ELSE NoFormat
    /\ op' = name
    /\ UNCHANGED <<tamper, other, decoded_pin, decoded_pin_len, decoded_format, other_len, args, pinblock2, rand2>>

EncodeFormat0 ==
    /\ op = "init"
    /\ BufLen(pinblock) = PINBLOCK_SIZE
    /\ \E p \in PINS, a \in PANS :
        /\ pin' = p /\ pan' = a /\ nonce' = NULL /\ nonce_len' = 0 /\ rand' = <<>>
        /\ locals' = encode_format0_locals(p, BufLen(p), a, BufLen(a), pinblock)
        /\ Encoded("encode0", PINBLOCK_ISO9564_FORMAT_0,
             pinblock_encode_iso9564_format0(p, BufLen(p), a, BufLen(a), pinblock),
             pinblock_encode_iso9564_format0(p, BufLen(p), a, BufLen(a),
                                             Blank(pinblock)))

EncodeFormat1 ==
    /\ op = "init"
    /\ BufLen(pinblock) = PINBLOCK_SIZE
    /\ \E p \in PINS, na \in NONCE_ARGS, rnd \in RANDS :
        /\ pin' = p /\ pan' = NULL /\ nonce' = na[1] /\ nonce_len' = na[2]
        /\ rand' = Drawn(rnd, format1_rand_len(p, BufLen(p), na[1], na[2], pinblock))
        /\ locals' = encode_format1_locals(p, BufLen(p), na[1], na[2], pinblock, rnd)
        /\ Encoded("encode1", PINBLOCK_ISO9564_FORMAT_1,
             pinblock_encode_iso9564_format1(p, BufLen(p), na[1], na[2], pinblock, rnd),
             pinblock_encode_iso9564_format1(p, BufLen(p), na[1], na[2],
                                             Blank(pinblock), rnd))

EncodeFormat2 ==
    /\ op = "init"
    /\ BufLen(pinblock) = PINBLOCK_SIZE
    /\ \E p \in PINS :
        /\ pin' = p /\ pan' = NULL /\ nonce' = NULL /\ nonce_len' = 0 /\ rand' = <<>>
        /\ locals' = <<>>
        /\ Encoded("encode2", PINBLOCK_ISO9564_FORMAT_2,
             pinblock_encode_iso9564_format2(p, BufLen(p), pinblock),
             pinblock_encode_iso9564_format2(p, BufLen(p), Blank(pinblock)))

EncodeFormat3 ==
    /\ op = "init"
    /\ BufLen(pinblock) = PINBLOCK_SIZE
    /\ \E p \in PINS, a \in PANS, rnd \in RANDS :
        /\ pin' = p /\ pan' = a /\ nonce' = NULL /\ nonce_len' = 0
        /\ rand' = Drawn(rnd, format3_rand_len(p, BufLen(p), a, BufLen(a), pinblock))
        /\ locals' = encode_format3_locals(p, BufLen(p), a, BufLen(a), pinblock, rnd)
        /\ Encoded("encode3", PINBLOCK_ISO9564_FORMAT_3,
             pinblock_encode_iso9564_format3(p, BufLen(p), a, BufLen(a), pinblock, rnd),
             pinblock_encode_iso9564_format3(p, BufLen(p), a, BufLen(a),
                                             Blank(pinblock), rnd))

EncodeFormat4Pinfield ==
    /\ op = "init"
    /\ BufLen(pinblock) = PINBLOCK128_SIZE
    /\ \E p \in PINS, rnd \in RANDS :
        /\ pin' = p /\ pan' = NULL /\ nonce' = NULL /\ nonce_len' = 0
        /\ rand' = Drawn(rnd, format4_rand_len(p, BufLen(p), pinblock))
        /\ locals' = <<>>
        /\ Encoded("encode4", PINBLOCK_ISO9564_FORMAT_4,
             pinblock_encode_iso9564_format4_pinfield(p, BufLen(p), pinblock, rnd),
             pinblock_encode_iso9564_format4_pinfield(p, BufLen(p),
                                                      Blank(pinblock), rnd))

\* The second encode of the randomness tests has returned res in pinblock2,
\* having drawn rnd2 from the random source.
EncodedAgain(name, res, rnd2) ==
    /\ pinblock2' = res.pinblock
    /\ rand2' = rnd2
    /\ r' = res.r
    /\ op' = name
    /\ UNCHANGED <<pin, pan, nonce, nonce_len, rand, pinblock, written, tamper, other,
                   decoded_pin, decoded_pin_len, enc, decoded_format, locals, other_len, args>>

\* After a format 1 encode with random padding, the same PIN is encoded into
\* pinblock2; the random source returns other bytes than in the first call.
EncodeFormat1Again ==
    /\ op = "encode1" /\ r = 0 /\ nonce = NULL
    /\ \E rnd \in SECOND_RANDS :
        /\ Drawn(rnd, BufLen(rand)) # rand
        /\ EncodedAgain("encode1_again",
             pinblock_encode_iso9564_format1(pin, BufLen(pin), nonce, nonce_len,
                                             pinblock2, rnd),
             Drawn(rnd, format1_rand_len(pin, BufLen(pin), nonce, nonce_len, pinblock2)))

\* The same PIN and PAN are encoded in format 3 into pinblock2.
EncodeFormat3Again ==
    /\ op = "encode3" /\ r = 0
    /\ \E rnd \in SECOND_RANDS :
        /\ Drawn(rnd, BufLen(rand)) # rand
        /\ EncodedAgain("encode3_again",
             pinblock_encode_iso9564_format3(pin, BufLen(pin), pan, BufLen(pan),
                                             pinblock2, rnd),
             Drawn(rnd, format3_rand_len(pin, BufLen(pin), pan, BufLen(pan), pinblock2)))

\* The same PIN is encoded into a second format 4 PIN field.
EncodeFormat4PinfieldAgain ==
    /\ op = "encode4" /\ r = 0
    /\ \E rnd \in SECOND_RANDS :
        /\ Drawn(rnd, BufLen(rand)) # rand
        /\ EncodedAgain("encode4_again",
             pinblock_encode_iso9564_format4_pinfield(pin, BufLen(pin), pinblock2, rnd),
             Drawn(rnd, format4_rand_len(pin, BufLen(pin), pinblock2)))

\* The caller derives the format 4 PAN field of a PAN into its 16 byte buffer.
EncodeFormat4PanfieldOf ==
    /\ op = "init"
    /\ BufLen(pinblock) = PINBLOCK128_SIZE
    /\ \E a \in PAN_FIELD_INPUTS :
        LET res == pinblock_encode_iso9564_format4_panfield(a, BufLen(a), pinblock)
            probe == pinblock_encode_iso9564_format4_panfield(a, BufLen(a), Blank(pinblock))
        IN  /\ pan' = a
            /\ pinblock' = res.pinblock
            /\ written' = Stored(probe.pinblock)
            /\ r' = res.r
    /\ op' = "encode4_panfield"
    /\ UNCHANGED <<pin, nonce, nonce_len, rand, tamper, other, decoded_pin,
                   decoded_pin_len, enc, decoded_format, locals, other_len, args,
                   pinblock2, rand2>>

\* The caller takes a received block instead of encoding one.
LoadBlock ==
    /\ op = "init"
    /\ \E b \in BLOCKS : pinblock' = b
    /\ op' = "load"
    /\ UNCHANGED <<pin, pan, nonce, nonce_len, rand, written, tamper, other, decoded_pin,
                   decoded_pin_len, r, enc, decoded_format, locals, other_len, args, pinblock2, rand2>>

\* pinblock[6] ^= 1 of the tests, for any byte after the first and any bit
FlipBit(name, after) ==
    /\ op = after
    /\ r = 0
    /\ \E idx \in 1..(PINBLOCK_SIZE - 1), bit \in 0..7 :
        /\ pinblock' = [pinblock EXCEPT ![idx] = BitXor(@, 2 ^ bit)]
        /\ tamper' = <<idx, 2 ^ bit>>
    /\ op' = name
    /\ UNCHANGED <<pin, pan, nonce, nonce_len, rand, written, other, decoded_pin,
                   decoded_pin_len, r, enc, decoded_format, locals, other_len, args, pinblock2, rand2>>

TamperFormat2 == FlipBit("tamper2", "encode2")
TamperFormat4 == FlipBit("tamper4", "encode4")

\* The points of the caller where it holds a block to be inspected or decoded:
\* at the start, after an encode, after loading a block
Callable == {"init", "load", "encode0", "encode1", "encode2", "encode3", "encode4"}

\* A decode may follow the start or an encode; after a bit flip the tests
\* call the decode of the format that was encoded.
Decodable(format) ==
    \/ op \in Callable
    \/ op = "tamper2" /\ format = PINBLOCK_ISO9564_FORMAT_2
    \/ op = "tamper4" /\ format = PINBLOCK_ISO9564_FORMAT_4

\* A decode call has returned res.
Decoded(name, res) ==
    /\ decoded_pin' = res.pin
    /\ decoded_pin_len' = res.pin_len
    /\ r' = res.r
    /\ op' = name
    /\ UNCHANGED <<pin, pan, nonce, nonce_len, rand, pinblock, written, tamper, enc,
                   decoded_format, args, pinblock2, rand2>>

DecodeFormat0 ==
    /\ Decodable(PINBLOCK_ISO9564_FORMAT_0)
    /\ \E a \in PANS :
        /\ other' = a /\ other_len' = BufLen(a)
        /\ locals' = decode_masked_locals(PINBLOCK_ISO9564_FORMAT_0, pinblock,
                         BufLen(pinblock), a, BufLen(a), decoded_pin, decoded_pin_len)
        /\ Decoded("decode0",
             pinblock_decode_iso9564_format0(pinblock, BufLen(pinblock), a, BufLen(a),
                                             decoded_pin, decoded_pin_len))

DecodeFormat1 ==
    /\ Decodable(PINBLOCK_ISO9564_FORMAT_1)
    /\ other' = NULL /\ other_len' = 0
    /\ locals' = <<>>
    /\ Decoded("decode1",
         pinblock_decode_iso9564_format1(pinblock, BufLen(pinblock),
                                         decoded_pin, decoded_pin_len))

DecodeFormat2 ==
    /\ Decodable(PINBLOCK_ISO9564_FORMAT_2)
    /\ other' = NULL /\ other_len' = 0
    /\ locals' = <<>>
    /\ Decoded("decode2",
         pinblock_decode_iso9564_format2(pinblock, BufLen(pinblock),
                                         decoded_pin, decoded_pin_len))

DecodeFormat3 ==
    /\ Decodable(PINBLOCK_ISO9564_FORMAT_3)
    /\ \E a \in PANS :
        /\ other' = a /\ other_len' = BufLen(a)
        /\ locals' = decode_masked_locals(PINBLOCK_ISO9564_FORMAT_3, pinblock,
                         BufLen(pinblock), a, BufLen(a), decoded_pin, decoded_pin_len)
        /\ Decoded("decode3",
             pinblock_decode_iso9564_format3(pinblock, BufLen(pinblock), a, BufLen(a),
                                             decoded_pin, decoded_pin_len))

DecodeFormat4Pinfield ==
    /\ Decodable(PINBLOCK_ISO9564_FORMAT_4)
    /\ other' = NULL /\ other_len' = 0
    /\ locals' = <<>>
    /\ Decoded("decode4",
         pinblock_decode_iso9564_format4_pinfield(pinblock, BufLen(pinblock),
                                                  decoded_pin, decoded_pin_len))

\* r = pinblock_get_format(pinblock, sizeof(pinblock))
GetFormat ==
    /\ op \in Callable
    /\ r' = pinblock_get_format(pinblock, BufLen(pinblock))
    /\ locals' = <<>>
    /\ op' = "get_format"
    /\ UNCHANGED <<pin, pan, nonce, nonce_len, rand, pinblock, written, tamper, other,
                   decoded_pin, decoded_pin_len, enc, decoded_format, other_len, args, pinblock2, rand2>>

\* r = pinblock_decode(pinblock, sizeof(pinblock), other, other_len, &format,
\*                     decoded_pin, &decoded_pin_len), other being one of
\* OTHER_ARGS or the PAN the block was encoded with
Decode ==
    /\ op \in Callable
    /\ \E oa \in OTHER_ARGS \cup (IF pan = NULL THEN {} ELSE {<<pan, BufLen(pan)>>}) :
        /\ other' = oa[1] /\ other_len' = oa[2]
        /\ locals' = pinblock_decode_locals(pinblock, BufLen(pinblock), oa[1], oa[2],
                         decoded_format, decoded_pin, decoded_pin_len)
        /\ LET res == pinblock_decode(pinblock, BufLen(pinblock), oa[1], oa[2],
                                      decoded_format, decoded_pin, decoded_pin_len)
           IN  /\ decoded_format' = res.format
               /\ decoded_pin' = res.pin
               /\ decoded_pin_len' = res.pin_len
               /\ r' = res.r
    /\ op' = "decode"
    /\ UNCHANGED <<pin, pan, nonce, nonce_len, rand, pinblock, written, tamper, enc, args, pinblock2, rand2>>

Next ==
    \/ LoadBlock
    \/ GetFormat
    \/ Decode
    \/ EncodeFormat0
    \/ EncodeFormat1
    \/ EncodeFormat2
    \/ EncodeFormat3
    \/ EncodeFormat4Pinfield
    \/ EncodeFormat1Again
    \/ EncodeFormat3Again
    \/ EncodeFormat4PinfieldAgain
    \/ EncodeFormat4PanfieldOf
    \/ TamperFormat2
    \/ TamperFormat4
    \/ DecodeFormat0
    \/ DecodeFormat1
    \/ DecodeFormat2
    \/ DecodeFormat3
    \/ DecodeFormat4Pinfield

Spec == Init /\ [][Next]_vars

\* ------------------------------------------------- PAN field derivations
\* The PAN field derivations are functions of the PAN alone; this second
\* specification draws a PAN and applies either of them to it.
PanInit ==
    \E v \in PrevFill, a \in PAN_FIELD_INPUTS :
        /\ pin = <<>>
        /\ pan = a
        /\ nonce = NULL
        /\ nonce_len = 0
        /\ rand = <<>>
        /\ pinblock = [k \in 0..(PINBLOCK128_SIZE - 1) |-> v]
        /\ pinblock2 = [k \in 0..(PINBLOCK128_SIZE - 1) |-> v]
        /\ written = {}
        /\ tamper = <<>>
        /\ other = NULL
        /\ decoded_pin = [k \in 0..11 |-> v]
        /\ decoded_pin_len = [k \in {0} |-> v]
        /\ r = 0
        /\ enc = NoFormat
        /\ op = "pan_init"
        /\ decoded_format = [k \in {0} |-> v]
        /\ locals = <<>>
        /\ other_len = 0
        /\ args = <<>>
        /\ rand2 = <<>>

\* pinblock_pack_pan(pan, pan_len, panfield), which its callers reach with a
\* PAN that is not empty; pinblock becomes the 8 byte PAN field
PackPan ==
    /\ op = "pan_init"
    /\ BufLen(pan) > 0
    /\ pinblock' = pinblock_pack_pan(pan, BufLen(pan))
    /\ r' = 0
    /\ op' = "pack_pan"
    /\ UNCHANGED <<pin, pan, nonce, nonce_len, rand, written, tamper, other, decoded_pin,
                   decoded_pin_len, enc, decoded_format, locals, other_len, args, pinblock2, rand2>>

\* pinblock_encode_iso9564_format4_panfield(pan, sizeof(pan), panfield)
EncodeFormat4Panfield ==
    /\ op = "pan_init"
    /\ LET res == pinblock_encode_iso9564_format4_panfield(pan, BufLen(pan), pinblock)
           probe == pinblock_encode_iso9564_format4_panfield(pan, BufLen(pan), Blank(pinblock))
       IN  /\ pinblock' = res.pinblock
           /\ written' = Stored(probe.pinblock)
           /\ r' = res.r
    /\ op' = "encode4_panfield"
    /\ UNCHANGED <<pin, pan, nonce, nonce_len, rand, tamper, other, decoded_pin,
                   decoded_pin_len, enc, decoded_format, locals, other_len, args, pinblock2, rand2>>

PanNext ==
    \/ PackPan
    \/ EncodeFormat4Panfield

PanSpec == PanInit /\ [][PanNext]_vars

\* ------------------------------------------------ calls with any arguments
\* A third specification: a caller that passes each public function null
\* pointers and zero lengths as well as valid arguments.  args holds the
\* arguments of the call in the order of the C parameters; a call given a null
\* output pointer leaves the caller's buffer as it was.
ValidPin == PinOf(4, 0)
\* (pin, pin_len) and (pan, pan_len) arguments: each pointer null or not, each
\* length zero or the length of the buffer
PIN_ARGS ==
    {<<NULL, 0>>, <<NULL, BufLen(ValidPin)>>, <<ValidPin, 0>>, <<ValidPin, BufLen(ValidPin)>>}
PAN_ARGS ==
    {<<NULL, 0>>, <<NULL, BufLen(TestPan)>>, <<TestPan, 0>>, <<TestPan, BufLen(TestPan)>>}
\* (pin, pin_len) arguments of the encodes: those, a PIN of 3 digits and one of 13
ENCODE_PIN_ARGS == PIN_ARGS \cup {<<PinOf(3, 0), 3>>, <<PinOf(13, 0), 13>>}
\* (nonce, nonce_len) arguments of the format 1 encode: none, or 2 bytes
ENCODE_NONCE_ARGS == {<<NULL, 0>>, <<NonceOf(2), 2>>}
\* (pinblock, pinblock_len) arguments for the caller's buffer buf
BlockArgs(buf) == {<<NULL, 0>>, <<NULL, BufLen(buf)>>, <<buf, 0>>, <<buf, BufLen(buf)>>}
\* an output pointer: null or the caller's buffer buf
PointerArgs(buf) == {NULL, buf}

\* The caller's buffer buf after a call that was given ptr and returned res in it
Out(ptr, res, buf) == IF ptr = NULL THEN buf ELSE res

ArgInit ==
    \E v \in PrevFill, f \in PINBLOCK_ISO9564_FORMAT_0..PINBLOCK_ISO9564_FORMAT_4 :
        /\ pin = <<>>
        /\ pan = NULL
        /\ nonce = NULL
        /\ nonce_len = 0
        /\ rand = <<>>
        /\ pinblock = BlockOf(IF f = PINBLOCK_ISO9564_FORMAT_4 THEN PINBLOCK128_SIZE ELSE PINBLOCK_SIZE, f, 4)
        /\ pinblock2 = [k \in 0..(PINBLOCK_SIZE - 1) |-> v]
        /\ written = {}
        /\ tamper = <<>>
        /\ other = NULL
        /\ decoded_pin = [k \in 0..11 |-> v]
        /\ decoded_pin_len = [k \in {0} |-> v]
        /\ r = 0
        /\ enc = NoFormat
        /\ op = "arg_init"
        /\ decoded_format = [k \in {0} |-> v]
        /\ locals = <<>>
        /\ other_len = 0
        /\ args = <<>>
        /\ rand2 = <<>>

\* The call name(a) has returned code and left the caller's buffers as given.
ArgCall(name, a, code, blk, out, out_len, fmt) ==
    /\ op' = name
    /\ args' = a
    /\ r' = code
    /\ pinblock' = blk
    /\ decoded_pin' = out
    /\ decoded_pin_len' = out_len
    /\ decoded_format' = fmt
    /\ UNCHANGED <<pin, pan, nonce, nonce_len, written, tamper, other, enc, locals,
                   other_len, pinblock2, rand2>>

\* An encode call name(a), of result res, into the buffer b, having drawn the
\* bytes drawn from the random source
ArgEncoded(name, a, res, b, drawn) ==
    /\ rand' = drawn
    /\ ArgCall(name, a, res.r, Out(b, res.pinblock, pinblock), decoded_pin, decoded_pin_len, decoded_format)

\* A decode call name(a), of result res, into the buffers o and ol
ArgDecoded(name, a, res, o, ol) ==
    /\ UNCHANGED rand
    /\ ArgCall(name, a, res.r, pinblock, Out(o, res.pin, decoded_pin), Out(ol, res.pin_len, decoded_pin_len), decoded_format)

ArgEncodeFormat0 ==
    /\ op = "arg_init"
    /\ BufLen(pinblock) = PINBLOCK_SIZE
    /\ \E p \in ENCODE_PIN_ARGS, a \in PAN_ARGS, b \in PointerArgs(pinblock) :
        ArgEncoded("arg_encode0", <<p[1], p[2], a[1], a[2], b>>,
            pinblock_encode_iso9564_format0(p[1], p[2], a[1], a[2], b), b, <<>>)

ArgEncodeFormat1 ==
    /\ op = "arg_init"
    /\ BufLen(pinblock) = PINBLOCK_SIZE
    /\ \E p \in ENCODE_PIN_ARGS, na \in ENCODE_NONCE_ARGS, b \in PointerArgs(pinblock) :
        ArgEncoded("arg_encode1", <<p[1], p[2], na[1], na[2], b>>,
            pinblock_encode_iso9564_format1(p[1], p[2], na[1], na[2], b, RandOf(0)), b,
            Drawn(RandOf(0), format1_rand_len(p[1], p[2], na[1], na[2], b)))

ArgEncodeFormat2 ==
    /\ op = "arg_init"
    /\ BufLen(pinblock) = PINBLOCK_SIZE
    /\ \E p \in ENCODE_PIN_ARGS, b \in PointerArgs(pinblock) :
        ArgEncoded("arg_encode2", <<p[1], p[2], b>>,
            pinblock_encode_iso9564_format2(p[1], p[2], b), b, <<>>)

ArgEncodeFormat3 ==
    /\ op = "arg_init"
    /\ BufLen(pinblock) = PINBLOCK_SIZE
    /\ \E p \in ENCODE_PIN_ARGS, a \in PAN_ARGS, b \in PointerArgs(pinblock) :
        ArgEncoded("arg_encode3", <<p[1], p[2], a[1], a[2], b>>,
            pinblock_encode_iso9564_format3(p[1], p[2], a[1], a[2], b, RandOf(0)), b,
            Drawn(RandOf(0), format3_rand_len(p[1], p[2], a[1], a[2], b)))

ArgEncodeFormat4Pinfield ==
    /\ op = "arg_init"
    /\ BufLen(pinblock) = PINBLOCK128_SIZE
    /\ \E p \in ENCODE_PIN_ARGS, b \in PointerArgs(pinblock) :
        ArgEncoded("arg_encode4", <<p[1], p[2], b>>,
            pinblock_encode_iso9564_format4_pinfield(p[1], p[2], b, RandOf(0)), b,
            Drawn(RandOf(0), format4_rand_len(p[1], p[2], b)))

ArgEncodeFormat4Panfield ==
    /\ op = "arg_init"
    /\ BufLen(pinblock) = PINBLOCK128_SIZE
    /\ \E a \in PAN_ARGS, b \in PointerArgs(pinblock) :
        ArgEncoded("arg_encode4_panfield", <<a[1], a[2], b>>,
            pinblock_encode_iso9564_format4_panfield(a[1], a[2], b), b, <<>>)

ArgDecodeFormat0 ==
    /\ op = "arg_init"
    /\ \E b \in BlockArgs(pinblock), a \in PAN_ARGS, o \in PointerArgs(decoded_pin), ol \in PointerArgs(decoded_pin_len) :
        ArgDecoded("arg_decode0", <<b[1], b[2], a[1], a[2], o, ol>>,
            pinblock_decode_iso9564_format0(b[1], b[2], a[1], a[2], o, ol), o, ol)

ArgDecodeFormat1 ==
    /\ op = "arg_init"
    /\ \E b \in BlockArgs(pinblock), o \in PointerArgs(decoded_pin), ol \in PointerArgs(decoded_pin_len) :
        ArgDecoded("arg_decode1", <<b[1], b[2], o, ol>>,
            pinblock_decode_iso9564_format1(b[1], b[2], o, ol), o, ol)

ArgDecodeFormat2 ==
    /\ op = "arg_init"
    /\ \E b \in BlockArgs(pinblock), o \in PointerArgs(decoded_pin), ol \in PointerArgs(decoded_pin_len) :
        ArgDecoded("arg_decode2", <<b[1], b[2], o, ol>>,
            pinblock_decode_iso9564_format2(b[1], b[2], o, ol), o, ol)

ArgDecodeFormat3 ==
    /\ op = "arg_init"
    /\ \E b \in BlockArgs(pinblock), a \in PAN_ARGS, o \in PointerArgs(decoded_pin), ol \in PointerArgs(decoded_pin_len) :
        ArgDecoded("arg_decode3", <<b[1], b[2], a[1], a[2], o, ol>>,
            pinblock_decode_iso9564_format3(b[1], b[2], a[1], a[2], o, ol), o, ol)

ArgDecodeFormat4Pinfield ==
    /\ op = "arg_init"
    /\ \E b \in BlockArgs(pinblock), o \in PointerArgs(decoded_pin), ol \in PointerArgs(decoded_pin_len) :
        ArgDecoded("arg_decode4", <<b[1], b[2], o, ol>>,
            pinblock_decode_iso9564_format4_pinfield(b[1], b[2], o, ol), o, ol)

\* pinblock_decode with the test PAN as other
ArgDecode ==
    /\ op = "arg_init"
    /\ \E b \in BlockArgs(pinblock), f \in PointerArgs(decoded_format), o \in PointerArgs(decoded_pin), ol \in PointerArgs(decoded_pin_len) :
        LET res == pinblock_decode(b[1], b[2], TestPan, BufLen(TestPan), f, o, ol)
        IN  /\ UNCHANGED rand
            /\ ArgCall("arg_decode", <<b[1], b[2], TestPan, BufLen(TestPan), f, o, ol>>,
                res.r, pinblock, Out(o, res.pin, decoded_pin),
                Out(ol, res.pin_len, decoded_pin_len), Out(f, res.format, decoded_format))

\* The values a byte read through a null pointer may yield when it yields one
NullReadBytes == 0..255
\* The return values of pinblock_get_format: it has no null check, so with a
\* null block and a length of 8 or 16 it reads pinblock[0] through the null
\* pointer and returns what that byte decides
pinblock_get_format_returns(pinblock_ptr, pinblock_len) ==
    IF pinblock_ptr = NULL /\ get_format_reads(pinblock_len) # {}
    THEN {pinblock_get_format([k \in 0..(pinblock_len - 1) |-> byte], pinblock_len) : byte \in NullReadBytes}
    ELSE {pinblock_get_format(pinblock_ptr, pinblock_len)}

\* pinblock_get_format returns, or the read through the null pointer ends the
\* process
ArgGetFormat ==
    /\ op = "arg_init"
    /\ UNCHANGED rand
    /\ \E b \in BlockArgs(pinblock) :
        \/ \E code \in pinblock_get_format_returns(b[1], b[2]) :
              ArgCall("arg_get_format", <<b[1], b[2]>>, code, pinblock, decoded_pin,
                      decoded_pin_len, decoded_format)
        \/ /\ b[1] = NULL
           /\ get_format_reads(b[2]) # {}
           /\ ArgCall("arg_get_format_fault", <<b[1], b[2]>>, r, pinblock, decoded_pin,
                      decoded_pin_len, decoded_format)

ArgNext ==
    \/ ArgEncodeFormat0
    \/ ArgEncodeFormat1
    \/ ArgEncodeFormat2
    \/ ArgEncodeFormat3
    \/ ArgEncodeFormat4Pinfield
    \/ ArgEncodeFormat4Panfield
    \/ ArgDecodeFormat0
    \/ ArgDecodeFormat1
    \/ ArgDecodeFormat2
    \/ ArgDecodeFormat3
    \/ ArgDecodeFormat4Pinfield
    \/ ArgDecode
    \/ ArgGetFormat

ArgSpec == ArgInit /\ [][ArgNext]_vars

\* ================================================================ claims
\* Nibble n of a buffer, nibble 0 being the high nibble of byte 0
Nib(buf, n) == IF n % 2 = 0 THEN buf[n \div 2] \div 16 ELSE buf[n \div 2] % 16

\* The 8 bytes with the given 16 nibbles
FromNibbles(nib) == [k \in 0..(PINBLOCK_SIZE - 1) |-> nib[2 * k] * 16 + nib[2 * k + 1]]

\* The PIN field of ISO 9564-1: control nibble, length nibble, the PIN digits,
\* the fill digit in every remaining nibble
PinFieldLayout(format, p, fill) ==
    FromNibbles([n \in 0..15 |->
        IF n = 0 THEN format
        ELSE IF n = 1 THEN BufLen(p)
        ELSE IF n - 2 < BufLen(p) THEN p[n - 2]
        ELSE fill])

\* The last decode returned 0 and gave back the PIN of the last encode.
DecodedThePin ==
    /\ r = 0
    /\ decoded_pin_len[0] = BufLen(pin)
    /\ \A k \in 0..(BufLen(pin) - 1) : decoded_pin[k] = pin[k]

\* C1: decoding a format 0 (format 3) block with the decode of that format and
\* the PAN it was encoded with returns 0, the length and the digits of the PIN.
C1_RoundTripMasked ==
    /\ (op = "decode0" /\ enc = PINBLOCK_ISO9564_FORMAT_0 /\ other = pan)
          => DecodedThePin
    /\ (op = "decode3" /\ enc = PINBLOCK_ISO9564_FORMAT_3 /\ other = pan)
          => DecodedThePin

C1_Witness ==
    /\ op = "decode3" /\ enc = PINBLOCK_ISO9564_FORMAT_3 /\ other = pan
    /\ pan = TestPan /\ pin = PinOf(11, 1) /\ rand = Drawn(RandOf(3), 10)
    /\ r = 0 /\ decoded_pin_len[0] = 11 /\ decoded_pin[10] = 2

\* C2: decoding an untampered format 1, 2 or 4 block with the decode of that
\* format returns 0, the length and the digits of the PIN, whatever the nonce
\* or the random bytes were.
C2_RoundTripUnmasked ==
    /\ (op = "decode1" /\ enc = PINBLOCK_ISO9564_FORMAT_1) => DecodedThePin
    /\ (op = "decode2" /\ enc = PINBLOCK_ISO9564_FORMAT_2 /\ tamper = <<>>)
          => DecodedThePin
    /\ (op = "decode4" /\ enc = PINBLOCK_ISO9564_FORMAT_4 /\ tamper = <<>>)
          => DecodedThePin

C2_Witness ==
    /\ op = "decode1" /\ enc = PINBLOCK_ISO9564_FORMAT_1
    /\ nonce = NULL /\ rand = Drawn(RandOf(1), 5) /\ pin = PinOf(5, 2)
    /\ r = 0 /\ decoded_pin_len[0] = 5 /\ decoded_pin[4] = 7

\* The two PANs differ in one digit inside the window of 12 digits: their PAN
\* fields differ in exactly one nibble.
WindowDiffers(a, b) ==
    /\ a # NULL /\ b # NULL
    /\ Cardinality({n \in 0..15 : Nib(pinblock_pack_pan(a, BufLen(a)), n)
                                  # Nib(pinblock_pack_pan(b, BufLen(b)), n)}) = 1

\* C3: decoding a format 0 (format 3) block with a PAN that differs in the 12
\* digit window from the PAN it was encoded with fails with -3 and *pin_len 0.
C3_WrongPanDetected ==
    /\ (op = "decode0" /\ enc = PINBLOCK_ISO9564_FORMAT_0 /\ WindowDiffers(pan, other))
          => (r = -3 /\ decoded_pin_len[0] = 0)
    /\ (op = "decode3" /\ enc = PINBLOCK_ISO9564_FORMAT_3 /\ WindowDiffers(pan, other))
          => (r = -3 /\ decoded_pin_len[0] = 0)

\* The flipped bit lies in a nibble after the PIN digits of the encoded PIN.
FlippedFillNibble ==
    /\ tamper # <<>>
    /\ (IF tamper[2] >= 16 THEN 2 * tamper[1] ELSE 2 * tamper[1] + 1)
          >= 2 + BufLen(pin)

\* C4: a format 2 block with a bit flipped in a fill nibble is rejected by the
\* format 2 decode, with *pin_len 0.
C4_Format2TamperDetected ==
    (op = "decode2" /\ enc = PINBLOCK_ISO9564_FORMAT_2 /\ FlippedFillNibble)
        => (r # 0 /\ decoded_pin_len[0] = 0)

\* C5: a format 4 PIN field with a bit flipped in a fill nibble of bytes 1..7
\* is rejected by the format 4 decode, with *pin_len 0.
C5_Format4TamperDetected ==
    (op = "decode4" /\ enc = PINBLOCK_ISO9564_FORMAT_4 /\ FlippedFillNibble)
        => (r # 0 /\ decoded_pin_len[0] = 0)

\* C6: the block of a successful format 0 encode is the XOR of the PIN field
\* (0x0L, the PIN digits, 0xF fill) with the PAN field; PIN 1234 with PAN
\* 40 12 34 56 78 90 9F gives 04 12 74 ED CB A9 87 6F.
C6_Format0Block ==
    (op = "encode0" /\ r = 0) =>
        /\ \A k \in 0..(PINBLOCK_SIZE - 1) :
              pinblock[k] = BitXor(PinFieldLayout(0, pin, 15)[k],
                                   pinblock_pack_pan(pan, BufLen(pan))[k])
        /\ (pin = PinOf(4, 0) /\ pan = TestPan)
              => pinblock = Buf(<<4, 18, 116, 237, 203, 169, 135, 111>>)

C6_Witness ==
    /\ op = "encode0" /\ r = 0 /\ pin = PinOf(4, 0) /\ pan = TestPan
    /\ pinblock = Buf(<<4, 18, 116, 237, 203, 169, 135, 111>>)

\* C7: the block of a successful format 2 encode is 0x2L, the PIN digits and
\* 0xF in every remaining nibble; PIN 34567 gives 25 34 56 7F FF FF FF FF.
C7_Format2Block ==
    (op = "encode2" /\ r = 0) =>
        /\ pinblock = PinFieldLayout(2, pin, 15)
        /\ pin = PinOf(5, 2) => pinblock = Buf(<<37, 52, 86, 127, 255, 255, 255, 255>>)

C7_Witness ==
    /\ op = "encode2" /\ r = 0 /\ pin = PinOf(5, 2)
    /\ pinblock = Buf(<<37, 52, 86, 127, 255, 255, 255, 255>>)

\* Nibble k of the byte sequence nonce[n-1], nonce[n-2], ...
ReversedNonceNibble(k) ==
    IF k % 2 = 0 THEN nonce[nonce_len - 1 - (k \div 2)] \div 16
                 ELSE nonce[nonce_len - 1 - (k \div 2)] % 16

\* The caller has supplied a nonce of at least 7 - floor(L/2) bytes.
NonceLongEnough ==
    nonce # NULL /\ nonce_len >= PINBLOCK_SIZE - 1 - (BufLen(pin) \div 2)

\* C8: a successful format 1 encode with a caller nonce of at least
\* 7 - floor(L/2) bytes gives byte0 = 0x1L, the PIN digits in nibbles 2..L+1
\* and padding nibble k equal to nibble k of the nonce read from its last byte
\* backward; PIN 12345 with nonce 9A 33 C5 6F 87 A9 CB ED gives
\* 15 12 34 5E DC BA 98 76.
C8_Format1CallerNonce ==
    (op = "encode1" /\ r = 0 /\ NonceLongEnough) =>
        /\ pinblock[0] = 16 + BufLen(pin)
        /\ \A k \in 0..(BufLen(pin) - 1) : Nib(pinblock, 2 + k) = pin[k]
        /\ \A k \in 0..(13 - BufLen(pin)) :
              Nib(pinblock, 2 + BufLen(pin) + k) = ReversedNonceNibble(k)
        /\ (pin = PinOf(5, 0) /\ nonce = TestNonce)
              => pinblock = Buf(<<21, 18, 52, 94, 220, 186, 152, 118>>)

C8_Witness ==
    /\ op = "encode1" /\ r = 0 /\ pin = PinOf(5, 0) /\ nonce = TestNonce
    /\ pinblock = Buf(<<21, 18, 52, 94, 220, 186, 152, 118>>)

\* C9: with a valid PIN, the format 1 encode returns -3 exactly when a nonce
\* is supplied with a length that is not zero and is below 7 - floor(L/2), and
\* returns 0 for every supplied length at or above that bound.
C9_Format1NonceLength ==
    (op = "encode1" /\ BufLen(pin) >= 4 /\ BufLen(pin) <= 12) =>
        /\ r = -3 <=> (/\ nonce # NULL
                       /\ nonce_len # 0
                       /\ nonce_len < PINBLOCK_SIZE - 1 - (BufLen(pin) \div 2))
        /\ NonceLongEnough => r = 0

C9_Witness ==
    /\ op = "encode1" /\ pin = PinOf(7, 0) /\ nonce = NonceOf(3) /\ nonce_len = 3
    /\ r = -3

\* C10: a successful format 1 encode called with a null nonce or with
\* nonce_len zero has drawn its padding from the random source and has stored
\* to every one of the 8 bytes of the block.
C10_Format1RandomPadding ==
    (op = "encode1" /\ r = 0 /\ (nonce = NULL \/ nonce_len = 0)) =>
        /\ written = 0..(PINBLOCK_SIZE - 1)
        /\ rand # <<>>

\* The PIN field under a format 3 block: the block XOR the PAN field of the PAN
\* it was encoded with
Format3PinField ==
    [k \in 0..(PINBLOCK_SIZE - 1) |->
        BitXor(pinblock[k], pinblock_pack_pan(pan, BufLen(pan))[k])]

\* C11: the block of a successful format 3 encode, XORed with the PAN field,
\* has byte0 = 0x3L, the PIN digits in nibbles 2..L+1, and in every remaining
\* nibble a value of 0xA..0xF, the k-th of them being floor(b*6/256) + 0xA for
\* the k-th byte b returned by the random source.
C11_Format3PaddingAlphabet ==
    (op = "encode3" /\ r = 0) =>
        /\ Format3PinField[0] = 48 + BufLen(pin)
        /\ \A k \in 0..(BufLen(pin) - 1) : Nib(Format3PinField, 2 + k) = pin[k]
        /\ \A k \in 0..(13 - BufLen(pin)) :
              /\ Nib(Format3PinField, 2 + BufLen(pin) + k) \in 10..15
              /\ Nib(Format3PinField, 2 + BufLen(pin) + k) = ((rand[k] * 6) \div 256) + 10

C11_Witness ==
    /\ op = "encode3" /\ r = 0 /\ pin = PinOf(4, 0) /\ pan = TestPan
    /\ rand = Drawn(RandOf(1), 10)
    /\ Nib(Format3PinField, 6) = 11 /\ Nib(Format3PinField, 7) = 13
    /\ Nib(Format3PinField, 15) = 15

\* C12: a successful format 4 PIN field encode leaves byte0 = 0x4L, the PIN
\* digits from byte 1, 0xA in every remaining nibble of bytes 1..7, and the 8
\* bytes of the random source in bytes 8..15; PIN 1234 gives
\* 44 12 34 AA AA AA AA AA and PIN 12345 gives 45 12 34 5A AA AA AA AA.
C12_Format4PinField ==
    (op = "encode4" /\ r = 0) =>
        /\ BufLen(pinblock) = PINBLOCK128_SIZE
        /\ \A k \in 0..7 : pinblock[k] = PinFieldLayout(4, pin, 10)[k]
        /\ BufLen(rand) = 8
        /\ \A k \in 8..15 : pinblock[k] = rand[k - 8]
        /\ pin = PinOf(4, 0) =>
              \A k \in 0..7 : pinblock[k] = Buf(<<68, 18, 52, 170, 170, 170, 170, 170>>)[k]
        /\ pin = PinOf(5, 0) =>
              \A k \in 0..7 : pinblock[k] = Buf(<<69, 18, 52, 90, 170, 170, 170, 170>>)[k]

C12_Witness ==
    /\ op = "encode4" /\ r = 0 /\ pin = PinOf(5, 0) /\ rand = Drawn(RandOf(2), 8)
    /\ \A k \in 0..7 : pinblock[k] = Buf(<<69, 18, 52, 90, 170, 170, 170, 170>>)[k]
    /\ pinblock[8] = 170 /\ pinblock[9] = 213 /\ pinblock[15] = 215

\* The nibbles of a PAN buffer from the last one leftward
NibblesFromRight(a) == [i \in 1..(2 * BufLen(a)) |-> Nib(a, 2 * BufLen(a) - i)]
\* The digits of a PAN from the right: every nibble that is not 0xF
DigitsFromRight(a) == SelectSeq(NibblesFromRight(a), LAMBDA x : x # 15)
\* The digits left of the check digit, from the right
DigitsLeftOfCheckDigit(a) ==
    IF DigitsFromRight(a) = <<>> THEN <<>> ELSE Tail(DigitsFromRight(a))
\* The 16 nibbles of the 8 byte PAN field of ISO 9564-1: the rightmost 12 of
\* those digits, right-justified, and zero elsewhere
PanFieldNibble(a, n) ==
    IF 15 - n < 12 /\ 16 - n <= Len(DigitsLeftOfCheckDigit(a))
    THEN DigitsLeftOfCheckDigit(a)[16 - n]
    ELSE 0

\* C15: the 8 byte PAN field of a PAN that is not empty holds, right-justified
\* in nibbles 4..15, the up to 12 digits found left of the check digit when the
\* nibbles are read from the last one leftward and every 0xF nibble is
\* dropped, and zero in every other nibble.
C15_PanField8 ==
    op = "pack_pan" =>
        /\ BufLen(pinblock) = PINBLOCK_SIZE
        /\ \A n \in 0..15 : Nib(pinblock, n) = PanFieldNibble(pan, n)

C15_Witness ==
    /\ op = "pack_pan" /\ pan = PanWithHole(16, 2, 13)
    /\ pinblock = Buf(<<0, 0, 52, 86, 120, 144, 18, 53>>)

\* The number of nibbles of a PAN before its first 0xF nibble
LeadingDigitCount(a) ==
    Cardinality({n \in 0..(2 * BufLen(a) - 1) : \A m \in 0..n : Nib(a, m) # 15})
\* Every nibble after the leading digits is 0xF
RightPadded(a) ==
    \A n \in LeadingDigitCount(a)..(2 * BufLen(a) - 1) : Nib(a, n) = 15

\* Nibble n of the 32 nibbles of the format 4 PAN field of a short PAN: M = 0,
\* then the digits right-justified in nibbles 1..12
ShortPanFieldNibble(a, n) ==
    IF n >= 13 - LeadingDigitCount(a) /\ n <= 12
    THEN Nib(a, n - (13 - LeadingDigitCount(a)))
    ELSE 0

\* C13: for a PAN of fewer than 13 digits followed by any number of 0xF
\* nibbles, the format 4 PAN field has M = 0 in nibble 0, the digits
\* right-justified in nibbles 1..12, and zero in every other nibble.
C13_Format4ShortPan ==
    (op = "encode4_panfield" /\ BufLen(pan) > 0 /\ RightPadded(pan)
       /\ LeadingDigitCount(pan) < 13) =>
        /\ r = 0
        /\ \A n \in 0..31 : Nib(pinblock, n) = ShortPanFieldNibble(pan, n)

\* Nibble n of the format 4 PAN field of a long PAN: M, then the digits
LongPanFieldNibble(a, n) ==
    IF n = 0 THEN LeadingDigitCount(a) - 12
    ELSE IF n <= LeadingDigitCount(a) THEN Nib(a, n - 1)
    ELSE 0

\* C14: for a PAN of d digits before its first 0xF nibble or its end,
\* 12 <= d <= 19, the format 4 PAN field has d - 12 in nibble 0, the d digits
\* in nibbles 1..d and zero in every other nibble, bytes 10..15 included;
\* 41 11 11 11 11 11 11 11 gives 44 11 11 11 11 11 11 11 10 00 .. 00 and
\* 41 11 11 11 11 11 11 1F gives 34 11 11 11 11 11 11 11 00 .. 00.
C14_Format4LongPan ==
    (op = "encode4_panfield" /\ LeadingDigitCount(pan) >= 12
       /\ LeadingDigitCount(pan) <= 19) =>
        /\ r = 0
        /\ \A n \in 0..31 : Nib(pinblock, n) = LongPanFieldNibble(pan, n)
        /\ pan = TestPan4 => pinblock =
              Buf(<<68, 17, 17, 17, 17, 17, 17, 17, 16, 0, 0, 0, 0, 0, 0, 0>>)
        /\ pan = TestPan4Padded => pinblock =
              Buf(<<52, 17, 17, 17, 17, 17, 17, 17, 0, 0, 0, 0, 0, 0, 0, 0>>)

C14_Witness ==
    /\ op = "encode4_panfield" /\ pan = PanWithHole(19, 1, NoHole) /\ r = 0
    /\ pinblock = Buf(<<113, 35, 69, 103, 137, 1, 35, 69, 103, 137, 0, 0, 0, 0, 0, 0>>)

\* C16: pinblock_get_format returns f in 0..3 exactly when the block has 8
\* bytes and control nibble f, returns 4 exactly when it has 16 bytes and
\* control nibble 4, returns a negative value in every other case, and reads
\* byte 0 of the block only when the length is 8 or 16.
C16_GetFormat ==
    op = "get_format" =>
        /\ \A f \in 0..3 :
              r = f <=> (BufLen(pinblock) = PINBLOCK_SIZE /\ Nib(pinblock, 0) = f)
        /\ r = 4 <=> (BufLen(pinblock) = PINBLOCK128_SIZE /\ Nib(pinblock, 0) = 4)
        /\ r \notin 0..4 => r < 0
        /\ get_format_reads(BufLen(pinblock)) # {}
              => BufLen(pinblock) \in {PINBLOCK_SIZE, PINBLOCK128_SIZE}

C16_Witness ==
    /\ op = "get_format" /\ pinblock = BlockOf(PINBLOCK_SIZE, 4, 4) /\ r = -1

\* The decode of format f called directly
format_decode(f, blk, blk_len, oth, oth_len, out, out_len) ==
    CASE f = PINBLOCK_ISO9564_FORMAT_0 ->
            pinblock_decode_iso9564_format0(blk, blk_len, oth, oth_len, out, out_len)
      [] f = PINBLOCK_ISO9564_FORMAT_1 ->
            pinblock_decode_iso9564_format1(blk, blk_len, out, out_len)
      [] f = PINBLOCK_ISO9564_FORMAT_2 ->
            pinblock_decode_iso9564_format2(blk, blk_len, out, out_len)
      [] f = PINBLOCK_ISO9564_FORMAT_3 ->
            pinblock_decode_iso9564_format3(blk, blk_len, oth, oth_len, out, out_len)
      [] f = PINBLOCK_ISO9564_FORMAT_4 ->
            pinblock_decode_iso9564_format4_pinfield(blk, blk_len, out, out_len)

\* The call that has just returned gave the caller what the record d holds.
Returned(d) ==
    /\ r' = d.r
    /\ decoded_pin' = d.pin
    /\ decoded_pin_len' = d.pin_len

\* C17: when pinblock_get_format identifies the block as format f, a call of
\* pinblock_decode sets *format = f and returns the return code, *pin_len and
\* PIN digits that the format f decode returns when called directly with the
\* same block, other/other_len and output buffers; for f in 1, 2, 4 that is
\* also what the format f decode returns with other = NULL and other_len = 0.
C17_DispatcherEquivalence ==
    [][(op' = "decode" /\ pinblock_get_format(pinblock, BufLen(pinblock)) >= 0) =>
          LET f == pinblock_get_format(pinblock, BufLen(pinblock))
          IN  /\ decoded_format'[0] = f
              /\ Returned(format_decode(f, pinblock, BufLen(pinblock), other',
                                         other_len', decoded_pin, decoded_pin_len))
              /\ f \in {1, 2, 4} =>
                    Returned(format_decode(f, pinblock, BufLen(pinblock), NULL, 0,
                                           decoded_pin, decoded_pin_len))]_vars

C17_Witness ==
    /\ op = "decode" /\ enc = PINBLOCK_ISO9564_FORMAT_3 /\ pan = TestPan
    /\ other = TestPan /\ other_len = 7 /\ pin = PinOf(6, 1)
    /\ decoded_format[0] = 3 /\ DecodedThePin

\* The block has one of the two sizes and a control nibble that is not a
\* format of that size.
UnsupportedFormatBlock ==
    \/ BufLen(pinblock) = PINBLOCK_SIZE /\ Nib(pinblock, 0) \notin 0..3
    \/ BufLen(pinblock) = PINBLOCK128_SIZE /\ Nib(pinblock, 0) # 4

\* C18: pinblock_decode returns one and the same result, 5, which is neither
\* the unsupported size result 1 nor the integrity failure -3, for every 8 byte
\* block with a control nibble of 4..15 and for every 16 byte block with a
\* control nibble other than 4.
C18_UnsupportedFormat ==
    (op = "decode" /\ UnsupportedFormatBlock) => (r = 5 /\ r # 1 /\ r # -3)

\* C19: after any decode that returned a non-zero result, the caller's
\* *pin_len is 0, whatever it held before the call.
C19_PinLenZeroOnFailure ==
    (op \in {"decode0", "decode1", "decode2", "decode3", "decode4", "decode"}
       /\ r # 0) => decoded_pin_len[0] = 0

\* The local array was stored to during the call.
WasWritten(b) == \E k \in DOMAIN b : b[k] # Unwritten

\* C20: when an encode or decode function returns, with success or with an
\* error, each of its local arrays that was stored to during the call holds
\* only zero bytes.
C20_ScratchCleared ==
    \A i \in 1..Len(locals) :
        WasWritten(locals[i]) => \A k \in DOMAIN locals[i] : locals[i][k] = 0

C20_Witness ==
    /\ op = "encode3" /\ r = 0 /\ pin = PinOf(4, 0) /\ pan = TestPan
    /\ rand = Drawn(RandOf(1), 10)
    /\ locals = <<[k \in 0..9 |-> 0], [k \in 0..4 |-> 0],
                  [k \in 0..(PINBLOCK_SIZE - 1) |-> 0]>>

\* The last call was an encode of a PIN block or of a format 4 PIN field.
EncodeOps == {"encode0", "encode1", "encode2", "encode3", "encode4"}
\* The PIN length passed to the last encode is not zero and outside 4..12.
PinLenOutOfRange == BufLen(pin) \in 1..3 \/ BufLen(pin) > 12
\* The encodes of formats 0 and 3 were given a PAN length that is not zero.
PanLenNotZero == op \in {"encode0", "encode3"} => BufLen(pan) > 0

\* C21 as stated: each encode of formats 0..3 and of the format 4 PIN field,
\* given non-null arguments and a PIN length in 1..3 or above 12, returns -2;
\* given a PIN length in 4..12 it never returns -2.
C21_EncodePinLengthNonNull ==
    op \in EncodeOps =>
        /\ PinLenOutOfRange => r = -2
        /\ BufLen(pin) \in 4..12 => r # -2

\* C21 amended: each encode of formats 0..3 and of the format 4 PIN field,
\* given non-null arguments, a PAN length that is not zero where it takes a
\* PAN, and a PIN length in 1..3 or above 12, returns -2; given a PIN length
\* in 4..12 it never returns -2.
C21_EncodePinLength ==
    op \in EncodeOps =>
        /\ (PinLenOutOfRange /\ PanLenNotZero) => r = -2
        /\ BufLen(pin) \in 4..12 => r # -2

C21_Witness ==
    /\ op = "encode3" /\ pin = PinOf(13, 0) /\ pan = TestPan /\ r = -2

\* The last call was the decode of one format.
FormatDecodeOps == {"decode0", "decode1", "decode2", "decode3", "decode4"}
\* The format that decode accepts and the block size it requires
DecodeFormatOf(o) ==
    CASE o = "decode0" -> PINBLOCK_ISO9564_FORMAT_0
      [] o = "decode1" -> PINBLOCK_ISO9564_FORMAT_1
      [] o = "decode2" -> PINBLOCK_ISO9564_FORMAT_2
      [] o = "decode3" -> PINBLOCK_ISO9564_FORMAT_3
      [] o = "decode4" -> PINBLOCK_ISO9564_FORMAT_4
FixedSizeOf(o) == IF o = "decode4" THEN PINBLOCK128_SIZE ELSE PINBLOCK_SIZE

\* The result that the checks of size, format and length, made in that order,
\* give the last decode: 1, 2, -2, or any other value when all three pass
FirstFailingCheck ==
    IF BufLen(pinblock) # FixedSizeOf(op) THEN r = 1
    ELSE IF Nib(pinblock, 0) # DecodeFormatOf(op) THEN r = 2
    ELSE IF pinblock[0] % 16 \notin 4..12 THEN r = -2
    ELSE r \in {0, -3}

\* The lengths passed to the last decode pass its argument check: the block
\* length is not zero (formats 0..3) and the PAN length is not zero (formats 0
\* and 3).
DecodeLengthsNotZero ==
    /\ op \in {"decode0", "decode1", "decode2", "decode3"} => BufLen(pinblock) > 0
    /\ op \in {"decode0", "decode3"} => other_len > 0

\* C22 as stated: each format decode, given non-null arguments, returns 1 when
\* the block length differs from its fixed size, otherwise 2 when the high
\* nibble of byte 0 differs from its format, otherwise -2 when the low nibble
\* of byte 0 is outside 4..12; the integrity failure -3 differs from all three.
C22_DecodeFailureCodesNonNull ==
    op \in FormatDecodeOps => FirstFailingCheck

\* C22 amended: each format decode, given non-null arguments, a block length
\* that is not zero (formats 0..3) and a PAN length that is not zero (formats 0
\* and 3), returns 1 when the block length differs from its fixed size,
\* otherwise 2 when the high nibble of byte 0 differs from its format,
\* otherwise -2 when the low nibble of byte 0 is outside 4..12; the first
\* failing check decides and 1, 2, -2 and the integrity failure -3 differ.
C22_DecodeFailureCodes ==
    (op \in FormatDecodeOps /\ DecodeLengthsNotZero) => FirstFailingCheck

C22_Witness ==
    /\ op = "decode1" /\ pinblock = BlockOf(PINBLOCK_SIZE - 1, 2, 3) /\ r = 1

\* The calls of the third specification
ArgOps ==
    {"arg_encode0", "arg_encode1", "arg_encode2", "arg_encode3", "arg_encode4",
     "arg_encode4_panfield", "arg_decode0", "arg_decode1", "arg_decode2", "arg_decode3",
     "arg_decode4", "arg_decode", "arg_get_format", "arg_get_format_fault"}
\* A required buffer given as a null pointer or with a zero length
NullOrEmpty(ptr, len) == ptr = NULL \/ len = 0
\* The call o(a) has a null pointer for a required buffer or output, or a zero
\* length for a required input buffer.  The nonce of format 1 and the other of
\* pinblock_decode are optional.
InvalidArgument(o, a) ==
    CASE o \in {"arg_encode0", "arg_encode3"} ->
            NullOrEmpty(a[1], a[2]) \/ NullOrEmpty(a[3], a[4]) \/ a[5] = NULL
      [] o = "arg_encode1" -> NullOrEmpty(a[1], a[2]) \/ a[5] = NULL
      [] o \in {"arg_encode2", "arg_encode4", "arg_encode4_panfield"} ->
            NullOrEmpty(a[1], a[2]) \/ a[3] = NULL
      [] o \in {"arg_decode0", "arg_decode3"} ->
            NullOrEmpty(a[1], a[2]) \/ NullOrEmpty(a[3], a[4]) \/ a[5] = NULL \/ a[6] = NULL
      [] o \in {"arg_decode1", "arg_decode2", "arg_decode4"} ->
            NullOrEmpty(a[1], a[2]) \/ a[3] = NULL \/ a[4] = NULL
      [] o = "arg_decode" ->
            NullOrEmpty(a[1], a[2]) \/ a[5] = NULL \/ a[6] = NULL \/ a[7] = NULL
      [] o \in {"arg_get_format", "arg_get_format_fault"} -> NullOrEmpty(a[1], a[2])

\* C23: every public operation, given a null pointer for a required buffer or
\* output, or a zero length for a required input buffer, returns -1, having
\* written to none of the caller's outputs and having read no input buffer.
C23_InvalidArgumentsFirst ==
    [][(op' \in ArgOps /\ InvalidArgument(op', args')) =>
          /\ op' # "arg_get_format_fault"
          /\ r' = -1
          /\ pinblock' = pinblock
          /\ decoded_pin' = decoded_pin
          /\ decoded_pin_len' = decoded_pin_len
          /\ decoded_format' = decoded_format
          /\ op' = "arg_get_format" => get_format_reads(args'[2]) = {}]_vars

\* The last call was a decode: of one format or pinblock_decode.
DecodeOps == FormatDecodeOps \cup {"decode"}

\* C24: a decode that returns a non-zero result has written nothing to the pin
\* output buffer and nothing to the format output; the only output it may have
\* changed is *pin_len, set to 0.
C24_NoPartialResults ==
    [][(op' \in DecodeOps /\ r' # 0) =>
          /\ decoded_pin' = decoded_pin
          /\ decoded_format' = decoded_format
          /\ decoded_pin_len' = decoded_pin_len \/ decoded_pin_len'[0] = 0]_vars

\* The encode o run again: on the arguments p, a, n, nl and the random bytes
\* rnd, into the buffer buf
EncodeAgain(o, p, a, n, nl, buf, rnd) ==
    CASE o = "encode0" -> pinblock_encode_iso9564_format0(p, BufLen(p), a, BufLen(a), buf)
      [] o = "encode1" -> pinblock_encode_iso9564_format1(p, BufLen(p), n, nl, buf, rnd)
      [] o = "encode2" -> pinblock_encode_iso9564_format2(p, BufLen(p), buf)
      [] o = "encode3" -> pinblock_encode_iso9564_format3(p, BufLen(p), a, BufLen(a), buf, rnd)
      [] o = "encode4" -> pinblock_encode_iso9564_format4_pinfield(p, BufLen(p), buf, rnd)

\* The decode o run again: on the block blk and oth, oth_len, into the outputs
\* fmt, out and out_len
DecodeAgain(o, blk, oth, oth_len, fmt, out, out_len) ==
    IF o = "decode"
    THEN pinblock_decode(blk, BufLen(blk), oth, oth_len, fmt, out, out_len)
    ELSE WithFormat(format_decode(DecodeFormatOf(o), blk, BufLen(blk), oth, oth_len,
                                  out, out_len), fmt)

\* C25: the return code and the outputs of an encode or decode are those of a
\* second run of the same call on the same input arguments and random bytes
\* that starts from output buffers of other content and follows no earlier
\* call: the return code always, and after a success the whole block of an
\* encode, and *pin_len, the *pin_len digits and *format of a decode.
C25_Purity ==
    [][/\ op' \in EncodeOps =>
            LET again == EncodeAgain(op', pin', pan', nonce', nonce_len',
                                     Blank(pinblock), rand')
            IN  /\ r' = again.r
                /\ r' = 0 => pinblock' = again.pinblock
       /\ op' \in DecodeOps =>
            LET again == DecodeAgain(op', pinblock, other', other_len',
                                     Blank(decoded_format), Blank(decoded_pin),
                                     Blank(decoded_pin_len))
            IN  /\ r' = again.r
                /\ r' = 0 =>
                      /\ decoded_pin_len' = again.pin_len
                      /\ \A k \in 0..(again.pin_len[0] - 1) :
                            decoded_pin'[k] = again.pin[k]
                      /\ op' = "decode" => decoded_format' = again.format]_vars

\* The last call was the second of two successful encodes of the same PIN with
\* random padding.
EncodedTwice == op \in {"encode1_again", "encode3_again", "encode4_again"} /\ r = 0

\* The padding that the bytes rnd of the random source give a PIN of L digits:
\* in format 1 their first 14 - L nibbles, in format 3 floor(b * 6 / 256) of
\* their first 14 - L bytes, in format 4 the 8 bytes
RandomPadding(o, rnd, L) ==
    CASE o = "encode1_again" -> [k \in 0..(13 - L) |-> Nib(rnd, k)]
      [] o = "encode3_again" -> [k \in 0..(13 - L) |-> (rnd[k] * 6) \div 256]
      [] o = "encode4_again" -> [k \in 0..(PINBLOCK128_SIZE \div 2 - 1) |-> rnd[k]]

\* C26 as stated: two successive encodes of the same PIN with random padding
\* (format 1 with a null nonce, format 3 with the same PAN, format 4 PIN
\* field) never produce identical blocks.
C26_NeverIdentical ==
    EncodedTwice => pinblock2 # pinblock

\* C26 amended: two successive encodes of the same PIN with random padding
\* produce identical blocks exactly when the bytes of the random source give
\* both the same padding; they never do when the padding differs.
C26_IdenticalOnlyOnEqualPadding ==
    EncodedTwice =>
        (pinblock2 = pinblock
            <=> RandomPadding(op, rand2, BufLen(pin)) = RandomPadding(op, rand, BufLen(pin)))

\* random bytes 00 2B 56 .. and 01 2C 57 .. give the same format 3 block
C26_Witness ==
    /\ op = "encode3_again" /\ r = 0 /\ pin = PinOf(4, 0) /\ pan = TestPan
    /\ rand = Drawn(RandOf(0), 10) /\ rand2 = Drawn(RandNear(0), 10)
    /\ pinblock2 = pinblock

\* The format the last decode has decoded: the one it is the decode of, or the
\* one pinblock_decode has stored in *format
DecodedFormat == IF op = "decode" THEN decoded_format[0] ELSE DecodeFormatOf(op)

\* Nibble n of the PIN field of the decoded block: of the block itself for
\* formats 1, 2 and 4, of the block XOR the PAN field of other for formats 0
\* and 3
DecodedPinFieldNibble(n) ==
    IF DecodedFormat \in {PINBLOCK_ISO9564_FORMAT_0, PINBLOCK_ISO9564_FORMAT_3}
    THEN BitXor(Nib(pinblock, n), PanFieldNibble(other, n))
    ELSE Nib(pinblock, n)

\* C27: whenever a decode returns 0, *pin_len is in 4..12 and is the low nibble
\* of byte 0 of the block, the high nibble of byte 0 is the decoded format, and
\* pin[k] is nibble k + 2 of the PIN field for every k < *pin_len, values
\* 0xA..0xF included: no digit-range check is made.
C27_DecodePostcondition ==
    (op \in DecodeOps /\ r = 0) =>
        /\ decoded_pin_len[0] \in 4..12
        /\ decoded_pin_len[0] = pinblock[0] % 16
        /\ Nib(pinblock, 0) = DecodedFormat
        /\ \A k \in 0..(decoded_pin_len[0] - 1) :
              decoded_pin[k] = DecodedPinFieldNibble(k + 2)

\* PIN 2345 in format 2 with the top bit of byte 1 flipped decodes to A 3 4 5
C27_Witness ==
    /\ op = "decode2" /\ r = 0 /\ pin = PinOf(4, 1) /\ tamper = <<1, 128>>
    /\ decoded_pin_len[0] = 4 /\ decoded_pin[0] = 10 /\ decoded_pin[1] = 3

\* C28: bytes 0 and 1 of the 8 byte PAN field are zero for every PAN, so the
\* block of a successful format 0 or format 3 encode has
\* byte0 = (format << 4) | pin_len and byte1 = (pin[0] << 4) | pin[1] whatever
\* the PAN and the random padding; format 3 of PIN 12345 starts 35 12.
C28_UnmaskedHeader ==
    /\ op = "pack_pan" => (pinblock[0] = 0 /\ pinblock[1] = 0)
    /\ (op \in {"encode0", "encode3"} /\ r = 0) =>
          /\ pinblock_pack_pan(pan, BufLen(pan))[0] = 0
          /\ pinblock_pack_pan(pan, BufLen(pan))[1] = 0
          /\ pinblock[0] = enc * 16 + BufLen(pin)
          /\ pinblock[1] = pin[0] * 16 + pin[1]
          /\ (op = "encode3" /\ pin = PinOf(5, 0)) => (pinblock[0] = 53 /\ pinblock[1] = 18)

C28_Witness ==
    /\ op = "encode3" /\ r = 0 /\ pin = PinOf(5, 0) /\ pan = PanOf(19, 0)
    /\ rand = Drawn(RandOf(2), 10)
    /\ pinblock[0] = 53 /\ pinblock[1] = 18 /\ pinblock[2] # 52

ArgEncodeOps ==
    {"arg_encode0", "arg_encode1", "arg_encode2", "arg_encode3", "arg_encode4",
     "arg_encode4_panfield"}

\* C29: whenever one of the six encode functions returns a non-zero result,
\* the caller's output buffer is byte for byte what it was before the call
\* and no byte has been drawn from the random source.
C29_EncodeFailureUntouched ==
    [][(op' \in ArgEncodeOps /\ r' # 0) => (pinblock' = pinblock /\ rand' = <<>>)]_vars

C29_Witness ==
    /\ op = "arg_encode3" /\ r = -2
    /\ args = <<PinOf(13, 0), 13, TestPan, BufLen(TestPan), pinblock>>
    /\ pinblock = BlockOf(PINBLOCK_SIZE, PINBLOCK_ISO9564_FORMAT_3, 4)
    /\ rand = <<>>

\* The traces of buffer accesses that the call that led to the state can have
CallAccesses ==
    CASE op = "encode0" -> encode_filled_accesses(PINBLOCK_ISO9564_FORMAT_0, pin, BufLen(pin), pan, BufLen(pan), pinblock)
      [] op = "encode1" -> encode_format1_accesses(pin, BufLen(pin), nonce, nonce_len, pinblock)
      [] op = "encode2" -> encode_filled_accesses(PINBLOCK_ISO9564_FORMAT_2, pin, BufLen(pin), pan, 0, pinblock)
      [] op = "encode3" -> encode_format3_accesses(pin, BufLen(pin), pan, BufLen(pan), pinblock)
      [] op = "encode4" -> encode_format4_pinfield_accesses(pin, BufLen(pin), pinblock)
      [] op = "encode4_panfield" -> encode_format4_panfield_accesses(pan, BufLen(pan), pinblock)
      [] op \in DecodeOps -> decode_accesses(r, pinblock, other, other_len)
      [] OTHER -> {NoAccess}

\* The PAN given to the call that led to the state
PanArgument == IF op \in DecodeOps THEN other ELSE pan

\* C30: every read and write of a call stays inside its buffer: PAN reads use
\* indices 0..pan_len-1, nonce reads 0..nonce_len-1, the internal nonce field
\* is read only where it was initialised, field writes use indices 0..7
\* (0..15 for format 4), and a decode writes at most 12 pin bytes.
C30_BufferBounds ==
    \A a \in CallAccesses :
        /\ a.pin_reads \subseteq 0..(BufLen(pin) - 1)
        /\ a.pan_reads \subseteq 0..(BufLen(PanArgument) - 1)
        /\ a.pan_reads # {} => PanArgument # NULL
        /\ a.nonce_reads \subseteq 0..(nonce_len - 1)
        /\ a.nonce_reads # {} => BufLen(nonce) = nonce_len
        /\ a.field_reads \subseteq a.field_init
        /\ a.panfield_writes \subseteq 0..(PINBLOCK_SIZE - 1)
        /\ a.block_writes \subseteq
              (IF op \in {"encode4", "encode4_panfield"}
               THEN 0..(PINBLOCK128_SIZE - 1) ELSE 0..(PINBLOCK_SIZE - 1))
        /\ a.block_writes \subseteq DOMAIN pinblock
        /\ a.pin_writes \subseteq 0..11
        /\ a.pin_writes \subseteq DOMAIN decoded_pin

C30_Witness ==
    /\ op = "encode1" /\ r = 0
    /\ pin = PinOf(4, 0) /\ nonce = NonceOf(9) /\ nonce_len = 9
    /\ \E a \in CallAccesses :
          /\ a.nonce_reads = 1..8
          /\ a.field_init = 0..7
          /\ a.field_reads = 0..4
          /\ a.block_writes = 0..7

====
